---- MODULE Spec2Model ----
(***************************************************************************)
(* The block-tree store of rust-blockchain: the in-memory database         *)
(* (src/backend/memory.rs), the settlement of an Operation                 *)
(* (src/backend/operation.rs) and tree_route (src/backend/route.rs).       *)
(*                                                                         *)
(* Option<T> is a sequence of length at most one: None is <<>> and Some(x) *)
(* is <<x>>.  A HashMap is a function; its key set is its DOMAIN.          *)
(***************************************************************************)
EXTENDS Integers, Sequences, FiniteSets, TLC

\* ------------------------------------------------------------------ bounds

\* Longest import_block list of an Operation the model submits.
MaxImports == 2

\* Commit is not taken when it would make a children list longer than this
\* (re-importing a stored block pushes it onto its parent's list again).
MaxChildren == 2

\* ------------------------------------------------------------------ values

None == <<>>

Some(x) == <<x>>

\* HashMap::insert
Put(m, k, v) == [x \in (DOMAIN m) \cup {k} |-> IF x = k THEN v ELSE m[x]]

\* HashMap::remove
Del(m, k) == [x \in (DOMAIN m) \ {k} |-> m[x]]

EmptyMap == [x \in {} |-> x]

\* Block identifiers are content hashes, so an identifier determines the
\* block and with it the parent.  The blocks that exist: the genesis 1, the
\* chain 1 <- 2 <- 3 <- 4, the fork 2 <- 5 <- 6 <- 7, the fork 1 <- 10 and
\* the chain 4 <- 11 <- 12 <- 13 <- 14 that a peer has built on 4.
\* 9 is the identifier of no block.
ParentOf ==
  (1 :> None) @@ (2 :> Some(1)) @@ (3 :> Some(2)) @@ (4 :> Some(3)) @@
  (5 :> Some(2)) @@ (6 :> Some(5)) @@ (7 :> Some(6)) @@ (10 :> Some(1)) @@
  (11 :> Some(4)) @@ (12 :> Some(11)) @@ (13 :> Some(12)) @@ (14 :> Some(13))

\* Block: id() and parent_id().
Block(i) == [id |-> i, parent_id |-> ParentOf[i]]

GenesisBlock == Block(1)

\* The identifiers of the blocks the model imports, and the identifiers it
\* names in set_head and in associated().
ImportIds == {1, 2, 3, 10}

Ids == {1, 2, 3, 10, 9}

\* The state snapshot handed in with a block: the state after the block i
\* is named by i.
StateOf(i) == <<"state", i>>

ImportOperations ==
  {[block |-> Block(i), state |-> StateOf(i)] : i \in ImportIds}

\* Auxiliary: key() and associated().
Keys == {"k1"}

Auxiliaries ==
  { [key |-> "k1", associated |-> <<2>>],
    [key |-> "k1", associated |-> <<2, 9>>] }

SeqsUpTo(S, n) == UNION {[1..k -> S] : k \in 0..n}

\* The Operations the model submits.
Operations ==
  [ import_block : SeqsUpTo(ImportOperations, MaxImports),
    set_head : {None} \cup {Some(i) : i \in Ids},
    insert_auxiliaries : {<<>>} \cup {<<a>> : a \in Auxiliaries},
    remove_auxiliaries : {<<>>} \cup {<<k>> : k \in Keys} ]

\* ------------------------------------------------------------------ ChainQuery

contains(db, id) == id \in DOMAIN db.blocks_and_states

depth_at(db, id) == db.blocks_and_states[id].depth

block_at(db, id) == db.blocks_and_states[id].block

state_at(db, id) == db.blocks_and_states[id].state

children_at(db, id) == db.blocks_and_states[id].children

is_canon(db, id) == db.blocks_and_states[id].is_canon

lookup_canon_depth(db, d) ==
  IF d \in DOMAIN db.canon_depth_mappings
  THEN Some(db.canon_depth_mappings[d]) ELSE None

\* ------------------------------------------------------------------ ChainSettlement

insert_block(db, id, data) ==
  [db EXCEPT !.blocks_and_states = Put(@, id, data)]

push_child(db, id, child) ==
  [db EXCEPT !.blocks_and_states[id].children = Append(@, child)]

set_canon(db, id, canon) ==
  [db EXCEPT !.blocks_and_states[id].is_canon = canon]

insert_canon_depth_mapping(db, depth, id) ==
  [db EXCEPT !.canon_depth_mappings = Put(@, depth, id)]

remove_canon_depth_mapping(db, depth) ==
  [db EXCEPT !.canon_depth_mappings = Del(@, depth)]

insert_auxiliary(db, key, value) ==
  [db EXCEPT !.auxiliaries = Put(@, key, value)]

\* A removal that leaves the table as it was.
remove_auxiliary_kept(db, key) == db

remove_auxiliary(db, key) ==
  [db EXCEPT !.auxiliaries = Del(@, key)]

\* A set_head that leaves the head where it was.
set_head_kept(db, head) == db

set_head(db, head) == [db EXCEPT !.head = head]

\* MemoryBackend::new_with_genesis
new_with_genesis(block, genesis_state) ==
  [ blocks_and_states |->
      (block.id :> [ block |-> block, state |-> genesis_state, depth |-> 0,
                     children |-> <<>>, is_canon |-> TRUE ]),
    head |-> block.id,
    genesis |-> block.id,
    canon_depth_mappings |-> (0 :> block.id),
    auxiliaries |-> EmptyMap ]

\* ------------------------------------------------------------------ tree_route

\* The first loop of tree_route: walk `to` up while it is deeper than `from`.
\* w = [at, depth, branch, fail]; fail is "no", "NotExist" (a
\* failed query, returned as Err) or "panic" (an assertion or panic!).
RECURSIVE walk_to(_, _, _)
walk_to(db, w, from_depth) ==
  IF ~(w.depth > from_depth) THEN w
  ELSE IF block_at(db, w.at).parent_id = None
       THEN [w EXCEPT !.fail = IF w.depth = 0 THEN "no" ELSE "panic"]
       ELSE LET to_parent_hash == block_at(db, w.at).parent_id[1]
            IN IF ~contains(db, to_parent_hash)
               THEN [w EXCEPT !.fail = "NotExist"]
               ELSE walk_to(db,
                      [ at |-> to_parent_hash,
                        depth |-> depth_at(db, to_parent_hash),
                        branch |-> Append(w.branch, w.at),
                        fail |-> "no" ],
                      from_depth)

\* The second loop: walk `from` up while it is deeper than `to`.  Its
\* assertion reads to_depth, as the source does.
RECURSIVE walk_from(_, _, _)
walk_from(db, w, to_depth) ==
  IF ~(w.depth > to_depth) THEN w
  ELSE IF block_at(db, w.at).parent_id = None
       THEN [w EXCEPT !.fail = IF to_depth = 0 THEN "no" ELSE "panic"]
       ELSE LET from_parent_hash == block_at(db, w.at).parent_id[1]
            IN IF ~contains(db, from_parent_hash)
               THEN [w EXCEPT !.fail = "NotExist"]
               ELSE walk_from(db,
                      [ at |-> from_parent_hash,
                        depth |-> depth_at(db, from_parent_hash),
                        branch |-> Append(w.branch, w.at),
                        fail |-> "no" ],
                      to_depth)

\* No third loop: the two sides are left where the first loops left them.
walk_both_skipped(db, l) == l

\* The third loop: walk both sides up in lockstep until they meet.
\* l = [from, to, from_branch, to_branch, fail].
RECURSIVE walk_both(_, _)
walk_both(db, l) ==
  IF l.from = l.to THEN l
  ELSE IF block_at(db, l.to).parent_id = None
          \/ block_at(db, l.from).parent_id = None
       THEN [l EXCEPT !.fail = "panic"]
       ELSE LET to_parent_hash == block_at(db, l.to).parent_id[1]
                from_parent_hash == block_at(db, l.from).parent_id[1]
            IN IF ~contains(db, to_parent_hash) \/ ~contains(db, from_parent_hash)
               THEN [l EXCEPT !.fail = "NotExist"]
               ELSE walk_both(db,
                      [ from |-> from_parent_hash,
                        to |-> to_parent_hash,
                        from_branch |-> Append(l.from_branch, l.from),
                        to_branch |-> Append(l.to_branch, l.to),
                        fail |-> "no" ])

\* The to-branch appended as it was collected.
NotReversed(s) == s

\* to_branch.into_iter().rev()
Reverse(s) == [i \in 1..Len(s) |-> s[Len(s) + 1 - i]]

\* tree_route: [route, pivot, fail].  pivot counts the blocks before the
\* common block (a 0-based index into route).
tree_route(db, from_hash, to_hash) ==
  IF ~contains(db, from_hash) \/ ~contains(db, to_hash)
  THEN [route |-> <<>>, pivot |-> 0, fail |-> "NotExist"]
  ELSE
    LET t == walk_to(db, [ at |-> to_hash, depth |-> depth_at(db, to_hash),
                           branch |-> <<>>, fail |-> "no" ],
                     depth_at(db, from_hash))
        f == walk_from(db, [ at |-> from_hash, depth |-> depth_at(db, from_hash),
                             branch |-> <<>>, fail |-> "no" ],
                       t.depth)
        l == walk_both(db, [ from |-> f.at, to |-> t.at,
                             from_branch |-> f.branch, to_branch |-> t.branch,
                             fail |-> "no" ])
    IN IF t.fail # "no" THEN [route |-> <<>>, pivot |-> 0, fail |-> t.fail]
       ELSE IF f.fail # "no" THEN [route |-> <<>>, pivot |-> 0, fail |-> f.fail]
       ELSE IF l.fail # "no" THEN [route |-> <<>>, pivot |-> 0, fail |-> l.fail]
       ELSE [ route |-> l.from_branch \o <<l.to>> \o Reverse(l.to_branch),
              pivot |-> Len(l.from_branch),
              fail |-> "no" ]

\* The retracted blocks with the common ancestor among them.
retracted_with_common(r) == SubSeq(r.route, 1, r.pivot + 1)

\* TreeRoute::retracted
retracted(r) == SubSeq(r.route, 1, r.pivot)

\* TreeRoute::common_block
common_block(r) == r.route[r.pivot + 1]

\* TreeRoute::enacted
enacted(r) == SubSeq(r.route, r.pivot + 2, Len(r.route))

\* ------------------------------------------------------------------ Operation::settle

\* A block recorded at its parent's depth.
child_depth_same(d) == d

\* let depth = parent_depth.map(|d| d + 1), for Some(d)
child_depth(d) == d + 1

\* A loop that leaves when a pass admits nothing, without the error.
after_pass_break_on_stall(r) ==
  IF Len(r.next_verifying) = 0 \/ ~r.progress THEN "break" ELSE "continue"

\* A loop of one pass.
after_pass_once(r) == "break"

\* How the precheck loop goes on after the pass that ended as r.
after_pass(r) ==
  IF Len(r.next_verifying) = 0 THEN "break"
  ELSE IF ~r.progress THEN "InvalidOperation"
  ELSE "continue"

\* One pass of the precheck loop over `verifying`, block by block.
\* acc = [importing, parent_ides, next_verifying, progress, err].
RECURSIVE verify_pass(_, _, _)
verify_pass(db, verifying, acc) ==
  IF verifying = <<>> THEN acc
  ELSE
    LET op == Head(verifying)
    IN IF op.block.parent_id = None
       THEN [acc EXCEPT !.err = "IsGenesis"]
       ELSE
         LET parent_id == op.block.parent_id[1]
             parent_depth ==
               IF contains(db, parent_id) THEN Some(depth_at(db, parent_id))
               ELSE IF parent_id \in DOMAIN acc.importing
                    THEN Some(acc.importing[parent_id].depth)
                    ELSE None
         IN IF parent_depth # None
            THEN verify_pass(db, Tail(verifying),
                   [acc EXCEPT
                      !.progress = TRUE,
                      !.parent_ides = Put(@, op.block.id, parent_id),
                      !.importing = Put(@, op.block.id,
                         [ block |-> op.block, state |-> op.state,
                           depth |-> child_depth(parent_depth[1]),
                           children |-> <<>>, is_canon |-> FALSE ])])
            ELSE verify_pass(db, Tail(verifying),
                   [acc EXCEPT !.next_verifying = Append(@, op)])

\* The precheck loop: passes over the blocks not yet admitted, until a pass
\* leaves none or admits none.
RECURSIVE verify_imports(_, _, _, _)
verify_imports(db, verifying, importing, parent_ides) ==
  LET r == verify_pass(db, verifying,
             [ importing |-> importing, parent_ides |-> parent_ides,
               next_verifying |-> <<>>, progress |-> FALSE, err |-> "Ok" ])
  IN IF r.err # "Ok" THEN r
     ELSE IF after_pass(r) = "break" THEN r
     ELSE IF after_pass(r) = "InvalidOperation"
          THEN [r EXCEPT !.err = "InvalidOperation"]
     ELSE verify_imports(db, r.next_verifying, r.importing, r.parent_ides)

\* No head precheck.
head_exists_skipped(db, importing, new_head) == TRUE

\* The head precheck.
head_exists(db, importing, new_head) ==
  contains(db, new_head) \/ new_head \in DOMAIN importing

\* No auxiliary precheck.
auxiliaries_unchecked(db, importing, insert_auxiliaries) == TRUE

\* An auxiliary precheck that one present associated identifier satisfies.
auxiliaries_valid_any(db, importing, insert_auxiliaries) ==
  \A i \in 1..Len(insert_auxiliaries) :
    \/ Len(insert_auxiliaries[i].associated) = 0
    \/ \E j \in 1..Len(insert_auxiliaries[i].associated) :
         LET id == insert_auxiliaries[i].associated[j]
         IN contains(db, id) \/ id \in DOMAIN importing

\* The auxiliary precheck.
auxiliaries_valid(db, importing, insert_auxiliaries) ==
  \A i \in 1..Len(insert_auxiliaries) :
    \A j \in 1..Len(insert_auxiliaries[i].associated) :
      LET id == insert_auxiliaries[i].associated[j]
      IN contains(db, id) \/ id \in DOMAIN importing

\* for (id, data) in importing { backend.insert_block(..) }
RECURSIVE insert_blocks(_, _, _)
insert_blocks(db, importing, todo) ==
  IF todo = {} THEN db
  ELSE LET id == CHOOSE x \in todo : TRUE
       IN insert_blocks(insert_block(db, id, importing[id]), importing,
                        todo \ {id})

\* for (id, parent_id) in parent_ides { backend.push_child(parent_id, id) },
\* the map iterated in the order `order`.
RECURSIVE fix_children(_, _, _)
fix_children(db, parent_ides, order) ==
  IF order = <<>> THEN db
  ELSE fix_children(push_child(db, parent_ides[Head(order)], Head(order)),
                    parent_ides, Tail(order))

\* A retraction that clears is_canon and leaves the depth mapping.
RECURSIVE retract_keep_mapping(_, _)
retract_keep_mapping(db, ids) ==
  IF ids = <<>> THEN db
  ELSE retract_keep_mapping(set_canon(db, Head(ids), FALSE), Tail(ids))

\* A retraction that removes the depth mapping and leaves is_canon.
RECURSIVE retract_keep_canon(_, _)
retract_keep_canon(db, ids) ==
  IF ids = <<>> THEN db
  ELSE retract_keep_canon(
         remove_canon_depth_mapping(db, depth_at(db, Head(ids))), Tail(ids))

\* for id in route.retracted() { .. }
RECURSIVE retract(_, _)
retract(db, ids) ==
  IF ids = <<>> THEN db
  ELSE LET id == Head(ids)
           d1 == set_canon(db, id, FALSE)
       IN retract(remove_canon_depth_mapping(d1, depth_at(d1, id)), Tail(ids))

\* for id in route.enacted() { .. }
RECURSIVE enact(_, _)
enact(db, ids) ==
  IF ids = <<>> THEN db
  ELSE LET id == Head(ids)
           d1 == set_canon(db, id, TRUE)
       IN enact(insert_canon_depth_mapping(d1, depth_at(d1, id), id), Tail(ids))

RECURSIVE remove_auxiliaries(_, _)
remove_auxiliaries(db, keys) ==
  IF keys = <<>> THEN db
  ELSE remove_auxiliaries(remove_auxiliary(db, Head(keys)), Tail(keys))

RECURSIVE insert_auxiliaries(_, _)
insert_auxiliaries(db, auxs) ==
  IF auxs = <<>> THEN db
  ELSE insert_auxiliaries(insert_auxiliary(db, Head(auxs).key, Head(auxs)),
                          Tail(auxs))

\* The orders in which a HashMap with the key set S may be iterated.
IterationOrders(S) ==
  {o \in [1..Cardinality(S) -> S] : \A i, j \in 1..Cardinality(S) : o[i] = o[j] => i = j}

\* The mutations of settle that follow the insertion of the blocks, on the
\* backend d1 that holds them: [result, db].
finish(d1, op, parent_ides, order) ==
  LET d2 == fix_children(d1, parent_ides, order)
      route == tree_route(d2, d2.head, op.set_head[1])
      d3 == IF op.set_head = None THEN d2
            ELSE set_head(enact(retract(d2, retracted(route)), enacted(route)),
                          op.set_head[1])
      d4 == remove_auxiliaries(d3, op.remove_auxiliaries)
      d5 == insert_auxiliaries(d4, op.insert_auxiliaries)
  IN IF op.set_head # None /\ route.fail # "no"
     THEN [result |-> "panic", db |-> d2]
     ELSE [result |-> "Ok", db |-> d5]

\* The mutations of settle, after the prechecks: [result, db].
apply(db, op, importing, parent_ides, order) ==
  finish(insert_blocks(db, importing, DOMAIN importing), op, parent_ides, order)

\* A settle that writes the admitted blocks before the head and auxiliary
\* prechecks.
settle_insert_before_prechecks(db, op) ==
  LET v == verify_imports(db, op.import_block, EmptyMap, EmptyMap)
      d1 == insert_blocks(db, v.importing, DOMAIN v.importing)
  IN IF v.err # "Ok" THEN {[result |-> v.err, db |-> db]}
     ELSE IF op.set_head # None /\ ~head_exists(db, v.importing, op.set_head[1])
          THEN {[result |-> "InvalidOperation", db |-> d1]}
     ELSE IF ~auxiliaries_valid(db, v.importing, op.insert_auxiliaries)
          THEN {[result |-> "InvalidOperation", db |-> d1]}
     ELSE {apply(db, op, v.importing, v.parent_ides, order) :
             order \in IterationOrders(DOMAIN v.parent_ides)}

\* Operation::settle on the backend db, parent_ides being iterated in some
\* order: the set of [result, db] the call may end with.
settle(db, op) ==
  LET v == verify_imports(db, op.import_block, EmptyMap, EmptyMap)
  IN IF v.err # "Ok" THEN {[result |-> v.err, db |-> db]}
     ELSE IF op.set_head # None /\ ~head_exists(db, v.importing, op.set_head[1])
          THEN {[result |-> "InvalidOperation", db |-> db]}
     ELSE IF ~auxiliaries_valid(db, v.importing, op.insert_auxiliaries)
          THEN {[result |-> "InvalidOperation", db |-> db]}
     ELSE {apply(db, op, v.importing, v.parent_ides, order) :
             order \in IterationOrders(DOMAIN v.parent_ides)}

\* ------------------------------------------------------------------ the state machine

VARIABLES
  db,         \* the MemoryDatabase of the backend
  pc,         \* "idle", or "returned" while the caller holds a commit's result
  operation,  \* the Operation of the commit that returned
  result,     \* what that commit returned
  before      \* the database when that commit was called

\* The shared backend (RwLockBackend) and the threads that import through it.
VARIABLES
  import_lock,  \* the Mutex<()> of the backend: [holder, poisoned]
  write_lock,   \* the thread that holds the RwLock for writing, if any
  call,         \* per importer thread: where its import_block call stands
  committed,    \* the store as the Operations committed so far left it
  base,         \* the store when the first of the calls now open was made
  observed      \* what the last query of the reader thread was served from

\* The node that follows a peer with NetworkSync.
VARIABLES
  sync,      \* the NetworkSync of the node
  emitted,   \* the task that polls the stream: [pc, event], the event being
             \* the SyncEvent the last poll returned, until it is dispatched
  timer,     \* the fires of the Interval that no poll has seen yet
  to_peer,   \* the wire messages under way to the peer
  to_local,  \* the wire messages under way to the node
  peer_backend  \* the store of the peer

\* The caller that commits two Operations one after the other.
VARIABLES
  second     \* the second commit when it has returned: [operation, result,
             \* before], None before that

\* The thread that answers a BlockRequest.
VARIABLES
  walk       \* its walk along the canonical chain: [pc, d, last, ret, seen]

network == <<sync, emitted, timer, to_peer, to_local, peer_backend>>

\* What a single caller of MemoryBackend::commit leaves alone.
shared == <<import_lock, write_lock, call, committed, base, observed, network,
           second, walk>>

\* What the importer threads leave alone.
single == <<pc, operation, result, before, network, second, walk>>

\* What the sync task leaves alone.
importing_vars == <<pc, operation, result, before, second, walk,
                    write_lock, call, committed, base, observed, peer_backend>>

vars == <<db, single, shared>>

\* The handler thread outside on_message.
NoWalk == [pc |-> "idle", d |-> 0, last |-> 0, ret |-> <<>>, seen |-> {}]

\* Operation::default()
DefaultOperation ==
  [ import_block |-> <<>>, set_head |-> None,
    insert_auxiliaries |-> <<>>, remove_auxiliaries |-> <<>> ]

\* The importer threads.
Importers == {"i1", "i2"}

\* An importer thread outside import_block.
IdleCall ==
  [ pc |-> "idle", block |-> None, current_best_hash |-> None,
    current_best_depth |-> 0, new_depth |-> 0, executes |-> TRUE,
    pending |-> DefaultOperation, settled |-> None, result |-> "Ok",
    head_after |-> None ]

\* PeerStatus::default()
DefaultPeerStatus == [head_status |-> None, pending_request |-> None]

\* BestDepthStatusProducer::generate: the depth of the head.
generate(d) == depth_at(d, d.head)

\* NetworkSync::new
NetworkSync_new(head) ==
  [ head_status |-> <<head, 0>>,
    tick |-> 0,
    peers |-> EmptyMap,
    pending_blocks |-> <<>>,
    pending_events |-> <<>>,
    last_sync |-> None ]

\* The task that polls the NetworkSync stream, before its first poll.
NewTask == [pc |-> "poll", event |-> None]

Init ==
  /\ db = new_with_genesis(GenesisBlock, StateOf(GenesisBlock.id))
  /\ pc = "idle"
  /\ operation = DefaultOperation
  /\ result = "Ok"
  /\ before = db
  /\ import_lock = [holder |-> None, poisoned |-> FALSE]
  /\ write_lock = None
  /\ call = [t \in Importers |-> IdleCall]
  /\ committed = db
  /\ base = db
  /\ observed = "nothing"
  /\ sync = NetworkSync_new(generate(db))
  /\ emitted = NewTask
  /\ timer = 0
  /\ to_peer = <<>>
  /\ to_local = <<>>
  /\ peer_backend = db
  /\ second = None
  /\ walk = NoWalk

ChildrenBounded(d) ==
  \A id \in DOMAIN d.blocks_and_states : Len(children_at(d, id)) <= MaxChildren

\* MemoryBackend::commit: the whole of operation.settle(&mut self.0).
Commit(op) ==
  /\ pc = "idle"
  /\ \E out \in settle(db, op) :
       /\ ChildrenBounded(out.db)
       /\ db' = out.db
       /\ result' = out.result
  /\ operation' = op
  /\ before' = db
  /\ pc' = "returned"
  /\ UNCHANGED shared

\* The caller drops the Result and is ready for its next commit.
Return ==
  /\ pc = "returned"
  /\ pc' = "idle"
  /\ operation' = DefaultOperation
  /\ result' = "Ok"
  /\ before' = db
  /\ UNCHANGED <<db, shared>>

Next ==
  \/ pc = "idle" /\ \E op \in Operations : Commit(op)
  \/ Return

Spec == Init /\ [][Next]_vars

\* ------------------------------------------------------------------ the fork scenario

\* The blocks of the chain 1 <- 2 <- 3 <- 4 and of the fork 2 <- 5 <- 6 <- 7.
ForkIds == {i \in DOMAIN ParentOf : i <= 7}

\* The tips of the chain and of the fork.
ForkHeads == {i \in ForkIds : \A j \in ForkIds : ParentOf[j] # Some(i)}

\* The Operations of the fork scenario: at most one block imported, the head
\* left alone or set to the tip of the chain or of the fork.
ForkOperations ==
  [ import_block :
      SeqsUpTo({[block |-> Block(i), state |-> StateOf(i)] :
                  i \in ForkIds \ {GenesisBlock.id}}, 1),
    set_head : {None} \cup {Some(i) : i \in ForkHeads},
    insert_auxiliaries : {<<>>},
    remove_auxiliaries : {<<>>} ]

NextFork ==
  \/ pc = "idle" /\ \E op \in ForkOperations : Commit(op)
  \/ Return

SpecFork == Init /\ [][NextFork]_vars

\* ------------------------------------------------------------------ the shared backend

\* Mutex::lock returns at once whoever holds the guard.
MutexNeverBlocks(m) == TRUE

\* Mutex::lock returns when no guard of the mutex is alive.
MutexAcquirable(m) == m.holder = None

\* RwLock::read returns at once whoever writes.
ReadableWhileWritten(w) == TRUE

\* RwLock::read returns when no thread holds the lock for writing.
RwLockReadable(w) == w = None

\* RwLock::write returns when no thread holds the lock (a query holds it for
\* reading within one step only).
RwLockWritable(w) == w = None

\* BlockExecutor::execute_block, when it accepts the block: the state it
\* leaves is the state it was given with the block applied.
execute_block(block, state) == Append(state, block.id)

\* The backend while settle is between its writes: the admitted blocks are
\* inserted, the children lists, the canonical chain, the head and the
\* auxiliaries are still as before.
settle_begun(d, op) ==
  LET v == verify_imports(d, op.import_block, EmptyMap, EmptyMap)
  IN insert_blocks(d, v.importing, DOMAIN v.importing)

\* A head policy that also takes a block as deep as the head.
takes_head_or_equal(new_depth, current_best_depth) ==
  new_depth >= current_best_depth

\* if new_depth > current_best_depth { importer.set_head(new_hash) }
takes_head(new_depth, current_best_depth) == new_depth > current_best_depth

\* The Operation of BestDepthImporter::import_block for an executed block.
import_operation(block, state, new_depth, current_best_depth) ==
  [ import_block |-> <<[block |-> block, state |-> state]>>,
    set_head |-> IF takes_head(new_depth, current_best_depth)
                 THEN Some(block.id) ELSE None,
    insert_auxiliaries |-> <<>>,
    remove_auxiliaries |-> <<>> ]

\* The model does not submit a block that would make the children list of its
\* parent longer than MaxChildren.
Submittable(d, block) ==
  (block.parent_id # None /\ contains(d, block.parent_id[1]))
    => Len(children_at(d, block.parent_id[1])) < MaxChildren

\* The thread t is at `from` and goes to `to`, its locals changed as in c.
Step(t, from, to, c) ==
  /\ call[t].pc = from
  /\ call' = [call EXCEPT ![t] = [c EXCEPT !.pc = to]]

\* MutexGuard::drop that leaves the mutex locked.
UnlockNever(panicking) == import_lock' = import_lock

\* MutexGuard::drop, unwinding or not.
Unlock(panicking) ==
  import_lock' = [holder |-> None, poisoned |-> import_lock.poisoned \/ panicking]

\* import_block, lines 203-208: ImportAction::new with lock_import(), which
\* panics on a poisoned mutex.  A thread makes its next call when the callers
\* have taken the results of the calls before.
ImportActionNew(t, b) ==
  /\ call[t].pc = "idle"
  /\ Submittable(db, Block(b))
  /\ IF import_lock.poisoned
     THEN /\ Step(t, "idle", "panicked", call[t])
          /\ UNCHANGED import_lock
     ELSE /\ MutexAcquirable(import_lock)
          /\ import_lock' = [import_lock EXCEPT !.holder = Some(t)]
          /\ Step(t, "idle", "head", [call[t] EXCEPT !.block = Some(Block(b))])
  /\ base' = IF \A u \in Importers : call[u].pc \in {"idle", "panicked"}
             THEN db ELSE base
  /\ UNCHANGED <<db, write_lock, committed, observed, single>>

\* line 211: backend.head()
ReadHead(t) ==
  /\ call[t].pc = "head"
  /\ RwLockReadable(write_lock)
  /\ Step(t, "head", "best_depth",
          [call[t] EXCEPT !.current_best_hash = Some(db.head)])
  /\ UNCHANGED <<db, import_lock, write_lock, committed, base, observed, single>>

\* lines 212-213: backend.depth_at(&current_best_hash).expect(..)
ReadBestDepth(t) ==
  /\ call[t].pc = "best_depth"
  /\ RwLockReadable(write_lock)
  /\ IF contains(db, call[t].current_best_hash[1])
     THEN /\ Step(t, "best_depth", "parent_depth",
                  [call[t] EXCEPT !.current_best_depth =
                     depth_at(db, call[t].current_best_hash[1])])
          /\ UNCHANGED import_lock
     ELSE /\ Step(t, "best_depth", "panicked", call[t])
          /\ Unlock(TRUE)
  /\ UNCHANGED <<db, write_lock, committed, base, observed, single>>

\* lines 214-219: the depth of the parent, unwrapped, or 0 without a parent.
ReadParentDepth(t) ==
  LET block == call[t].block[1]
  IN /\ call[t].pc = "parent_depth"
     /\ IF block.parent_id = None
        THEN /\ Step(t, "parent_depth", "execute",
                     [call[t] EXCEPT !.new_depth = 0 + 1])
             /\ UNCHANGED import_lock
        ELSE /\ RwLockReadable(write_lock)
             /\ IF contains(db, block.parent_id[1])
                THEN /\ Step(t, "parent_depth", "execute",
                             [call[t] EXCEPT !.new_depth =
                                depth_at(db, block.parent_id[1]) + 1])
                     /\ UNCHANGED import_lock
                ELSE /\ Step(t, "parent_depth", "panicked", call[t])
                     /\ Unlock(TRUE)
     /\ UNCHANGED <<db, write_lock, committed, base, observed, single>>

\* lines 222-225: ImportAction::import_block (execute_block on the state of
\* the parent, then import_raw) and the set_head of a deeper block.  An error
\* is returned with `?`, which drops the action and with it the guard.
ExecuteBlock(t) ==
  LET block == call[t].block[1]
  IN /\ call[t].pc = "execute"
     /\ IF block.parent_id = None
        THEN /\ Step(t, "execute", "returned",
                     [call[t] EXCEPT !.result = "IsGenesis",
                                     !.head_after = call[t].current_best_hash])
             /\ Unlock(FALSE)
        ELSE /\ RwLockReadable(write_lock)
             /\ \/ /\ Step(t, "execute", "commit",
                           [call[t] EXCEPT !.pending =
                              import_operation(
                                block,
                                execute_block(block,
                                              state_at(db, block.parent_id[1])),
                                call[t].new_depth,
                                call[t].current_best_depth)])
                   /\ UNCHANGED import_lock
                \/ /\ Step(t, "execute", "returned",
                           [call[t] EXCEPT !.executes = FALSE,
                                           !.result = "Executor",
                                           !.head_after = call[t].current_best_hash])
                   /\ Unlock(FALSE)
     /\ UNCHANGED <<db, write_lock, committed, base, observed, single>>

\* line 226, ImportAction::commit: the action is turned into its Operation
\* before the backend commits it.  Operation::from(action) moves the pending
\* Operation out and drops the rest of the action, the guard with it.
CommitAction(t) ==
  /\ Step(t, "commit", "write", call[t])
  /\ Unlock(FALSE)
  /\ UNCHANGED <<db, write_lock, committed, base, observed, single>>

\* RwLockBackend::commit, first half: the RwLock is taken for writing and
\* settle runs up to its first writes.
CommitWrite(t) ==
  /\ call[t].pc = "write"
  /\ RwLockWritable(write_lock)
  /\ \E out \in settle(db, call[t].pending) :
       /\ Step(t, "write", "settling", [call[t] EXCEPT !.settled = Some(out)])
       /\ db' = IF out.result = "Ok" THEN settle_begun(db, call[t].pending)
                ELSE db
  /\ write_lock' = Some(t)
  /\ UNCHANGED <<import_lock, committed, base, observed, single>>

\* RwLockBackend::commit, second half: settle completes, the write guard is
\* dropped and import_block returns.
CommitDone(t) ==
  LET out == call[t].settled[1]
  IN /\ call[t].pc = "settling"
     /\ Step(t, "settling", "returned",
             [call[t] EXCEPT !.result = out.result,
                             !.settled = None,
                             !.head_after = Some(out.db.head)])
     /\ db' = out.db
     /\ write_lock' = None
     /\ committed' = out.db
     /\ UNCHANGED <<import_lock, base, observed, single>>

\* The callers take the Results of the calls that have returned, none being
\* under way.
ImportersReturn ==
  /\ \A t \in Importers : call[t].pc \in {"idle", "returned", "panicked"}
  /\ \E t \in Importers : call[t].pc = "returned"
  /\ call' = [t \in Importers |->
                IF call[t].pc = "returned" THEN IdleCall ELSE call[t]]
  /\ UNCHANGED <<db, import_lock, write_lock, committed, base, observed, single>>

\* A query of a reader thread through RwLockBackend: served under the read
\* lock from the backend as it is.
Query ==
  /\ RwLockReadable(write_lock)
  /\ observed' = IF db = committed THEN "committed" ELSE "partial"
  /\ UNCHANGED <<db, import_lock, write_lock, call, committed, base, single>>

NextImporter ==
  \/ \E t \in Importers :
       \/ \E b \in ImportIds : ImportActionNew(t, b)
       \/ ReadHead(t)
       \/ ReadBestDepth(t)
       \/ ReadParentDepth(t)
       \/ ExecuteBlock(t)
       \/ CommitAction(t)
       \/ CommitWrite(t)
       \/ CommitDone(t)
  \/ ImportersReturn
  \/ Query

SpecImporter == Init /\ [][NextImporter]_vars

\* ------------------------------------------------------------------ ImportAction

\* The number of mutations a thread stages in one ImportAction.
MaxStaged == 2

\* The blocks and the heads the threads name in their ImportActions.
ActionIds == {1, 2}

\* The blocks they hand to ImportAction::import_block: those, and the block 3
\* whose parent 2 is not in the store at first.
ExecutedIds == ActionIds \cup {3}

\* The model hands import_block a block that is not stored, the block 3 only
\* while its parent is not stored either.
Handed(d, b) ==
  /\ ~contains(d, b)
  /\ b \in ActionIds \/ ~contains(d, ParentOf[b][1])

\* The auxiliaries they insert.
ActionAuxiliaries == {aux \in Auxiliaries : Len(aux.associated) = 1}

\* The mutations staged in an Operation.
Staged(op) ==
  Len(op.import_block) + Len(op.insert_auxiliaries) + Len(op.remove_auxiliaries)
    + (IF op.set_head = None THEN 0 ELSE 1)

\* The thread t has an ImportAction and stages one more mutation in it.
Staging(t) ==
  /\ call[t].pc = "open"
  /\ Staged(call[t].pending) < MaxStaged

\* The pending Operation of the thread t becomes op; the backend and the
\* locks are not touched.
Stage(t, op, res) ==
  /\ Step(t, "open", "open", [call[t] EXCEPT !.pending = op, !.result = res])
  /\ UNCHANGED <<db, import_lock, write_lock, committed, base, observed, single>>

\* SharedCommittable::begin_action: ImportAction::new with lock_import(),
\* which panics on a poisoned mutex.
BeginAction(t) ==
  /\ call[t].pc = "idle"
  /\ IF import_lock.poisoned
     THEN /\ Step(t, "idle", "panicked", call[t])
          /\ UNCHANGED import_lock
     ELSE /\ MutexAcquirable(import_lock)
          /\ import_lock' = [import_lock EXCEPT !.holder = Some(t)]
          /\ Step(t, "idle", "open", call[t])
  /\ base' = IF \A u \in Importers : call[u].pc \in {"idle", "panicked"}
             THEN db ELSE base
  /\ UNCHANGED <<db, write_lock, committed, observed, single>>

\* An import_block that stages the block with the state it was handed with,
\* without a look at the store.
ActionImportUnexecuted(t, b) ==
  /\ Staging(t)
  /\ Handed(db, b)
  /\ Stage(t, [call[t].pending EXCEPT !.import_block =
                 Append(@, [block |-> Block(b), state |-> StateOf(b)])], "Ok")

\* ImportAction::import_block: execute_block on the state of the parent read
\* from the backend, then import_raw.  An error leaves the action as it was.
ActionImportBlock(t, b) ==
  LET block == Block(b)
      c == call[t]
  IN /\ Staging(t)
     /\ Handed(db, b)
     /\ IF block.parent_id = None THEN Stage(t, c.pending, "IsGenesis")
        ELSE /\ RwLockReadable(write_lock)
             /\ IF ~contains(db, block.parent_id[1])
                THEN Stage(t, c.pending, "Backend")
                ELSE \/ Stage(t, [c.pending EXCEPT !.import_block =
                                    Append(@, [block |-> block,
                                               state |-> execute_block(block,
                                                  state_at(db, block.parent_id[1]))])],
                              "Ok")
                     \/ Stage(t, c.pending, "Executor")

\* ImportAction::import_raw
ActionImportRaw(t, b) ==
  /\ Staging(t)
  /\ ~contains(db, b)
  /\ Stage(t, [call[t].pending EXCEPT !.import_block =
                 Append(@, [block |-> Block(b), state |-> StateOf(b)])], "Ok")

\* ImportAction::set_head
ActionSetHead(t, head) ==
  /\ Staging(t)
  /\ Stage(t, [call[t].pending EXCEPT !.set_head = Some(head)], "Ok")

\* ImportAction::insert_auxiliary
ActionInsertAuxiliary(t, aux) ==
  /\ Staging(t)
  /\ Stage(t, [call[t].pending EXCEPT !.insert_auxiliaries = Append(@, aux)], "Ok")

\* ImportAction::remove_auxiliary
ActionRemoveAuxiliary(t, aux_key) ==
  /\ Staging(t)
  /\ Stage(t, [call[t].pending EXCEPT !.remove_auxiliaries = Append(@, aux_key)], "Ok")

\* The ImportAction goes out of scope without commit: its fields are dropped,
\* the pending Operation and the guard among them.
DropAction(t) ==
  /\ Step(t, "open", "returned", [call[t] EXCEPT !.result = "Dropped"])
  /\ Unlock(FALSE)
  /\ UNCHANGED <<db, write_lock, committed, base, observed, single>>

\* ImportAction::commit of the action a thread filled itself: as in
\* CommitAction, the guard is dropped with the action before the backend
\* commits.
ActionCommit(t) ==
  /\ Step(t, "open", "write", call[t])
  /\ Unlock(FALSE)
  /\ UNCHANGED <<db, write_lock, committed, base, observed, single>>

NextAction ==
  \/ \E t \in Importers :
       \/ BeginAction(t)
       \/ \E b \in ExecutedIds : ActionImportBlock(t, b)
       \/ \E b \in ActionIds : ActionImportRaw(t, b)
       \/ \E head \in ActionIds : ActionSetHead(t, head)
       \/ \E aux \in ActionAuxiliaries : ActionInsertAuxiliary(t, aux)
       \/ \E aux_key \in Keys : ActionRemoveAuxiliary(t, aux_key)
       \/ DropAction(t)
       \/ ActionCommit(t)
       \/ CommitWrite(t)
       \/ CommitDone(t)
  \/ ImportersReturn
  \/ Query

SpecAction == Init /\ [][NextAction]_vars

\* ------------------------------------------------------------------ what the claims speak of

Stored(d) == DOMAIN d.blocks_and_states

Range(q) == {q[i] : i \in 1..Len(q)}

\* The blocks on the parent-linked path from id up, over at most n blocks.
RECURSIVE Chain(_, _, _)
Chain(d, id, n) ==
  IF n = 0 \/ id \notin Stored(d) THEN {}
  ELSE {id} \cup (IF block_at(d, id).parent_id = None THEN {}
                  ELSE Chain(d, block_at(d, id).parent_id[1], n - 1))

\* The canonical chain: the parent-linked path from the head up.
CanonChain(d) == Chain(d, d.head, Cardinality(Stored(d)))

\* The identifiers of the blocks of an import list that have a parent which
\* is stored in d or is itself such a block.
RECURSIVE AdmittedFrom(_, _, _)
AdmittedFrom(d, imports, acc) ==
  LET new == { imports[i].block.id : i \in
                 { j \in 1..Len(imports) :
                     /\ imports[j].block.parent_id # None
                     /\ imports[j].block.parent_id[1] \in Stored(d) \cup acc } }
  IN IF new \subseteq acc THEN acc ELSE AdmittedFrom(d, imports, acc \cup new)

Admitted(d, imports) == AdmittedFrom(d, imports, {})

\* The import list holds a block without a parent.
HasGenesisImport(op) ==
  \E i \in 1..Len(op.import_block) : op.import_block[i].block.parent_id = None

\* The import list holds a block whose parent is neither stored nor admitted.
HasMissingParent(d, op) ==
  \E i \in 1..Len(op.import_block) :
    /\ op.import_block[i].block.parent_id # None
    /\ op.import_block[i].block.parent_id[1]
         \notin Stored(d) \cup Admitted(d, op.import_block)

\* set_head names an identifier that is neither stored nor admitted.
HasUnknownHead(d, op) ==
  /\ op.set_head # None
  /\ op.set_head[1] \notin Stored(d) \cup Admitted(d, op.import_block)

\* An inserted auxiliary has an associated identifier that is neither stored
\* nor admitted.
HasDanglingAuxiliary(d, op) ==
  \E i \in 1..Len(op.insert_auxiliaries) :
    \E j \in 1..Len(op.insert_auxiliaries[i].associated) :
      op.insert_auxiliaries[i].associated[j]
        \notin Stored(d) \cup Admitted(d, op.import_block)

\* The import list holds a block whose identifier is stored.
ImportsStored(d, op) ==
  \E i \in 1..Len(op.import_block) : op.import_block[i].block.id \in Stored(d)

\* The error of an Operation that cannot be settled: a block without parent
\* ends the first pass of the precheck loop, before any other check.
ExpectedError(op) ==
  IF HasGenesisImport(op) THEN "IsGenesis" ELSE "InvalidOperation"

\* ------------------------------------------------------------------ C1

\* C1: a commit that returns IsGenesis or InvalidOperation leaves the whole
\* database (blocks, states, depths, children, is_canon, canon depth index,
\* auxiliaries, head, genesis) as it was when the commit was called.
C1_FailedCommitLeavesStore ==
  (pc = "returned" /\ result \in {"IsGenesis", "InvalidOperation"})
    => db = before

\* A rejected Operation with imports (one of them admitted), a set_head, an
\* auxiliary insert and a removal, on a store that holds more than genesis
\* and an auxiliary.
C1_Witness ==
  /\ pc = "returned"
  /\ result = "InvalidOperation"
  /\ Admitted(before, operation.import_block) # {}
  /\ operation.set_head # None
  /\ operation.insert_auxiliaries # <<>>
  /\ operation.remove_auxiliaries # <<>>
  /\ Cardinality(Stored(before)) > 1
  /\ DOMAIN before.auxiliaries # {}

\* ------------------------------------------------------------------ C2

\* C2: after every successful commit, genesis has depth 0 and every other
\* stored block has its parent stored and is one deeper than its parent.
C2_ParentStoredAndDepth ==
  result = "Ok" =>
    \A b \in Stored(db) :
      IF b = db.genesis
      THEN depth_at(db, b) = 0
      ELSE /\ block_at(db, b).parent_id # None
           /\ block_at(db, b).parent_id[1] \in Stored(db)
           /\ depth_at(db, b) = depth_at(db, block_at(db, b).parent_id[1]) + 1

\* A successful commit that was given the block 3 before its parent 2.
C2_Witness ==
  /\ pc = "returned"
  /\ result = "Ok"
  /\ Len(operation.import_block) = 2
  /\ operation.import_block[1].block.id = 3
  /\ {2, 3} \subseteq Stored(db) \ Stored(before)

\* ------------------------------------------------------------------ C3

\* C3: after every successful commit, the children of every stored block p
\* are exactly the stored blocks whose parent is p.
C3_ChildrenExact ==
  result = "Ok" =>
    \A p \in Stored(db) :
      Range(children_at(db, p)) =
        {c \in Stored(db) : block_at(db, c).parent_id = Some(p)}

\* ------------------------------------------------------------------ C4

\* C4: after every successful commit, is_canon is true exactly for the blocks
\* on the parent-linked path from genesis to head.
C4_CanonExactlyOnChain ==
  result = "Ok" =>
    /\ db.genesis \in CanonChain(db)
    /\ \A b \in Stored(db) : is_canon(db, b) <=> b \in CanonChain(db)

\* ------------------------------------------------------------------ C5

\* C5: after every successful commit, lookup_canon_depth(d) is the block of
\* depth d on the canonical chain for every d up to the depth of the head,
\* and None for every greater d.
C5_CanonDepthIndex ==
  result = "Ok" =>
    /\ DOMAIN db.canon_depth_mappings \subseteq 0..Cardinality(Stored(db))
    /\ \A d \in 0..Cardinality(Stored(db)) :
         IF d <= depth_at(db, db.head)
         THEN /\ lookup_canon_depth(db, d) # None
              /\ lookup_canon_depth(db, d)[1] \in CanonChain(db)
              /\ depth_at(db, lookup_canon_depth(db, d)[1]) = d
         ELSE lookup_canon_depth(db, d) = None

\* A reorg from a head to a shallower block of another fork.
C5_Witness ==
  /\ pc = "returned"
  /\ result = "Ok"
  /\ depth_at(db, db.head) < depth_at(before, before.head)
  /\ db.head \notin CanonChain(before)

\* ------------------------------------------------------------------ C6

\* C6: after every successful commit, every identifier associated with a
\* stored auxiliary is stored.
C6_AuxiliaryAssociatedStored ==
  result = "Ok" =>
    \A k \in DOMAIN db.auxiliaries :
      Range(db.auxiliaries[k].associated) \subseteq Stored(db)

\* A successful commit that inserted an auxiliary together with the block
\* it is associated with.
C6_Witness ==
  /\ pc = "returned"
  /\ result = "Ok"
  /\ operation.insert_auxiliaries # <<>>
  /\ \E k \in DOMAIN db.auxiliaries :
       Range(db.auxiliaries[k].associated) \cap (Stored(db) \ Stored(before)) # {}

\* ------------------------------------------------------------------ C7

\* C7, for an Operation all of whose imported blocks have a parent: if it
\* imports a block whose identifier is stored it fails with InvalidOperation
\* and the stored record stays as it was.
C7_ImportOfStoredRejected ==
  (pc = "returned" /\ ImportsStored(before, operation)
     /\ ~HasGenesisImport(operation))
    => /\ result = "InvalidOperation"
       /\ \A id \in Stored(before) :
            db.blocks_and_states[id] = before.blocks_and_states[id]

\* ------------------------------------------------------------------ C8

\* C8 as stated: an Operation with a block whose parent is neither stored nor
\* admitted fails with InvalidOperation.
C8_MissingParentInvalidOperation ==
  (pc = "returned" /\ HasMissingParent(before, operation))
    => result = "InvalidOperation"

\* C8 amended: such an Operation fails with InvalidOperation, or with
\* IsGenesis when its import list also holds a block without a parent; it
\* never ends otherwise, whatever the order of the list.
C8_MissingParentFails ==
  (pc = "returned" /\ HasMissingParent(before, operation))
    => result = ExpectedError(operation)

\* The block 3 comes first, its parent 2 is neither stored nor in the list,
\* and the block after it is admitted: the first pass makes progress and the
\* second does not.
C8_Witness ==
  /\ pc = "returned"
  /\ result = "InvalidOperation"
  /\ Len(operation.import_block) = 2
  /\ operation.import_block[1].block.id = 3
  /\ HasMissingParent(before, operation)
  /\ Admitted(before, operation.import_block) # {}

\* ------------------------------------------------------------------ C9

\* C9 as stated: an Operation whose set_head is neither stored nor admitted
\* fails with InvalidOperation.
C9_UnknownHeadInvalidOperation ==
  (pc = "returned" /\ HasUnknownHead(before, operation))
    => result = "InvalidOperation"

\* C9 amended: such an Operation fails with InvalidOperation, or with
\* IsGenesis when its import list holds a block without a parent.
C9_UnknownHeadFails ==
  (pc = "returned" /\ HasUnknownHead(before, operation))
    => result = ExpectedError(operation)

\* Every import of the Operation is admitted and no auxiliary is inserted:
\* the head precheck is what rejects it.
C9_Witness ==
  /\ pc = "returned"
  /\ result = "InvalidOperation"
  /\ HasUnknownHead(before, operation)
  /\ operation.import_block # <<>>
  /\ ~HasMissingParent(before, operation)
  /\ ~HasGenesisImport(operation)
  /\ operation.insert_auxiliaries = <<>>

\* ------------------------------------------------------------------ C10

\* C10 as stated: an Operation that inserts an auxiliary with an associated
\* identifier that is neither stored nor admitted fails with
\* InvalidOperation and leaves the store unchanged.
C10_DanglingAuxiliaryInvalidOperation ==
  (pc = "returned" /\ HasDanglingAuxiliary(before, operation))
    => (result = "InvalidOperation" /\ db = before)

\* C10 amended: such an Operation fails with InvalidOperation, or with
\* IsGenesis when its import list holds a block without a parent, and leaves
\* the store unchanged.
C10_DanglingAuxiliaryFails ==
  (pc = "returned" /\ HasDanglingAuxiliary(before, operation))
    => (result = ExpectedError(operation) /\ db = before)

\* The imports and the set_head of the Operation are valid: the auxiliary
\* precheck is what rejects it.
C10_Witness ==
  /\ pc = "returned"
  /\ result = "InvalidOperation"
  /\ HasDanglingAuxiliary(before, operation)
  /\ Admitted(before, operation.import_block) # {}
  /\ ~HasMissingParent(before, operation)
  /\ ~HasGenesisImport(operation)
  /\ operation.set_head # None
  /\ ~HasUnknownHead(before, operation)

\* ------------------------------------------------------------------ C11

\* C11: after a successful commit the head is the Operation's set_head
\* target when it has one (a block stored before, or one the Operation
\* imports), and the head of before the commit when it has none.
C11_HeadAfterCommit ==
  (pc = "returned" /\ result = "Ok") =>
    IF operation.set_head # None
    THEN db.head = operation.set_head[1]
    ELSE db.head = before.head

\* A successful commit that moves the head to a block it imports itself.
C11_Witness ==
  /\ pc = "returned"
  /\ result = "Ok"
  /\ operation.set_head # None
  /\ operation.set_head[1] \notin Stored(before)
  /\ operation.set_head[1] \in Admitted(before, operation.import_block)
  /\ db.head # before.head

\* ------------------------------------------------------------------ C12

\* The import list names distinct blocks, each with a parent that is stored
\* in d or is another block of the list: a tree attached to the store.
AttachedTree(d, imports) ==
  /\ \A i, j \in 1..Len(imports) :
       imports[i].block.id = imports[j].block.id => i = j
  /\ \A i \in 1..Len(imports) :
       /\ imports[i].block.parent_id # None
       /\ imports[i].block.parent_id[1] \in
            Stored(d) \cup {imports[j].block.id : j \in 1..Len(imports)}

\* The lists with the elements of s in every order.
Orderings(s) ==
  {[i \in 1..Len(s) |-> s[o[i]]] : o \in IterationOrders(1..Len(s))}

\* The store with the children of every block as a set.
ChildrenAsSets(d) ==
  [d EXCEPT !.blocks_and_states =
     [id \in DOMAIN @ |-> [@[id] EXCEPT !.children = Range(@)]]]

\* C12: a commit whose import list is a tree attached to the store, with a
\* set_head and auxiliaries that name stored or imported blocks, succeeds, and
\* the same Operation with its import list in any other order (parent-first
\* among them) succeeds with the same final store, children taken as sets.
C12_AdmissionOrderIndependent ==
  ( /\ pc = "returned"
    /\ AttachedTree(before, operation.import_block)
    /\ ~HasUnknownHead(before, operation)
    /\ ~HasDanglingAuxiliary(before, operation) )
  => /\ result = "Ok"
     /\ \A p \in Orderings(operation.import_block) :
          \A out \in settle(before, [operation EXCEPT !.import_block = p]) :
            /\ out.result = "Ok"
            /\ ChildrenAsSets(out.db) = ChildrenAsSets(db)

\* A successful commit that was given the new block 3 before its new parent
\* 2, with the head set to 3.
C12_Witness ==
  /\ pc = "returned"
  /\ result = "Ok"
  /\ Len(operation.import_block) = 2
  /\ operation.import_block[1].block.id = 3
  /\ operation.import_block[2].block.id = 2
  /\ operation.set_head = Some(3)
  /\ {2, 3} \cap Stored(before) = {}
  /\ db.head = 3

\* ------------------------------------------------------------------ C13

\* retracted, then the common block, then enacted, is a path of d from a to
\* b: it starts at a and ends at b, every block up to the common block is
\* followed by its parent, every block after the common block follows its
\* parent, and the common block is in neither slice.
ParentLinkedPath(d, r, a, b) ==
  LET up   == Append(retracted(r), common_block(r))
      down == <<common_block(r)>> \o enacted(r)
  IN /\ up[1] = a
     /\ down[Len(down)] = b
     /\ \A i \in 1..(Len(up) - 1) :
          block_at(d, up[i]).parent_id = Some(up[i + 1])
     /\ \A i \in 1..(Len(down) - 1) :
          block_at(d, down[i + 1]).parent_id = Some(down[i])
     /\ common_block(r) \notin Range(retracted(r)) \cup Range(enacted(r))

\* C13: in every store reached by commits (every store is left to the caller
\* by Return), for stored a and b, tree_route(a,
\* b) succeeds with retracted, common_block and enacted forming a
\* parent-linked path from a to b that holds the common block once; for a = b
\* both slices are empty and the common block is a.
C13_TreeRouteIsPath ==
  pc = "idle" =>
    \A a, b \in Stored(db) :
      LET r == tree_route(db, a, b)
      IN /\ r.fail = "no"
         /\ ParentLinkedPath(db, r, a, b)
         /\ a = b => /\ retracted(r) = <<>>
                     /\ enacted(r) = <<>>
                     /\ common_block(r) = a

\* A store with the forks 1 <- 2 <- 3 and 1 <- 10, left by a commit whose
\* reorg from 10 to 3 followed tree_route(10, 3): 10 retracted, 2 and 3
\* enacted under the common block 1.
C13_Witness ==
  /\ pc = "idle"
  /\ {3, 10} \subseteq Stored(db)
  /\ db.head = 3
  /\ ~is_canon(db, 10)
  /\ retracted(tree_route(db, 10, 3)) = <<10>>
  /\ common_block(tree_route(db, 10, 3)) = 1
  /\ enacted(tree_route(db, 10, 3)) = <<2, 3>>

\* ------------------------------------------------------------------ C14

\* The stored blocks that are canonical.
CanonSet(d) == {b \in Stored(d) : is_canon(d, b)}

\* The chain 1 <- 2 <- 3 <- 4 is canonical with head 4.
ChainToFour(d) ==
  /\ d.head = 4
  /\ CanonSet(d) = {1, 2, 3, 4}
  /\ d.canon_depth_mappings = (0 :> 1) @@ (1 :> 2) @@ (2 :> 3) @@ (3 :> 4)

\* C14: on the canonical chain 1 <- 2 <- 3 <- 4 with head 4, a commit that
\* sets the head to 7, the fork 2 <- 5 <- 6 <- 7 being stored before or
\* imported new by that commit, succeeds;
\* tree_route(4, 7) has retracted = [4, 3], common block 2 and enacted =
\* [5, 6, 7]; afterwards exactly 1, 2, 5, 6, 7 are canonical and the canon
\* depth index is {0: 1, 1: 2, 2: 5, 3: 6, 4: 7}.
C14_ForkReorg ==
  ( /\ pc = "returned"
    /\ ChainToFour(before)
    /\ operation.set_head = Some(7)
    /\ ~ImportsStored(before, operation)
    /\ Stored(db) = ForkIds )
  => /\ result = "Ok"
     /\ retracted(tree_route(db, 4, 7)) = <<4, 3>>
     /\ common_block(tree_route(db, 4, 7)) = 2
     /\ enacted(tree_route(db, 4, 7)) = <<5, 6, 7>>
     /\ db.head = 7
     /\ CanonSet(db) = {1, 2, 5, 6, 7}
     /\ db.canon_depth_mappings =
          (0 :> 1) @@ (1 :> 2) @@ (2 :> 5) @@ (3 :> 6) @@ (4 :> 7)

\* The commit of set_head = 7 alone on the chain to 4 with the whole fork
\* stored before.
C14_Witness ==
  /\ pc = "returned"
  /\ result = "Ok"
  /\ ChainToFour(before)
  /\ Stored(before) = ForkIds
  /\ operation.import_block = <<>>
  /\ operation.set_head = Some(7)
  /\ db.head = 7

\* ------------------------------------------------------------------ C15

\* The import_block call c changed the head.
HeadChanged(c) == c.head_after # c.current_best_hash

\* The call c moved the head as the longest-depth rule says: the depth of the
\* head did not decrease, and the head changed exactly when the depth of the
\* new block, parent depth + 1, was greater than the depth of the head before
\* the call; the head it changed to is the new block, which is deeper.
LongestDepthRule(c) ==
  /\ depth_at(db, c.head_after[1]) >= c.current_best_depth
  /\ HeadChanged(c) <=> (c.new_depth > c.current_best_depth)
  /\ HeadChanged(c) =>
       /\ c.head_after = Some(c.block[1].id)
       /\ depth_at(db, c.block[1].id) = c.new_depth

\* The call of t has returned and no call of another thread ran beside it:
\* the calls made so far form a sequence.
ReturnedInSequence(t) ==
  /\ call[t].pc = "returned"
  /\ \A u \in Importers \ {t} : call[u].pc = "idle"

\* C15 as stated: every import_block call in a sequence of calls of the
\* longest-depth importer keeps the depth of the head or raises it, and
\* changes the head, to the new block, iff parent depth + 1 is greater than
\* the depth of the head before the call.
C15_HeadFollowsDepth ==
  \A t \in Importers :
    ReturnedInSequence(t) => LongestDepthRule(call[t])

\* C15 amended: every import_block call of the sequence that returns Ok
\* follows the rule, and a call that returns an error leaves the head where
\* it was, whatever the depth of its block.
C15_HeadFollowsDepthWhenOk ==
  \A t \in Importers :
    ReturnedInSequence(t) =>
      IF call[t].result = "Ok"
      THEN LongestDepthRule(call[t])
      ELSE ~HeadChanged(call[t])

\* A call that imported the block 10, as deep as the head 2 on the other
\* fork, and left the head at 2.
C15_Witness ==
  \E t \in Importers :
    /\ ReturnedInSequence(t)
    /\ call[t].result = "Ok"
    /\ call[t].block[1].id = 10
    /\ call[t].current_best_hash = Some(2)
    /\ call[t].new_depth = call[t].current_best_depth
    /\ call[t].head_after = Some(2)
    /\ contains(db, 10)


\* BestDepthImporter::import_block run from its first line to its last on the
\* store d with no other call beside it: the stores it can leave (none when
\* the missing parent makes it panic).  A block without parent and a block
\* the executor rejects leave d as it is.
import_block_alone(d, block, executes) ==
  IF block.parent_id = None THEN {d}
  ELSE IF ~contains(d, block.parent_id[1]) THEN {}
  ELSE IF ~executes THEN {d}
  ELSE { out.db : out \in
           settle(d, import_operation(
                       block,
                       execute_block(block, state_at(d, block.parent_id[1])),
                       depth_at(d, block.parent_id[1]) + 1,
                       depth_at(d, d.head))) }

\* The stores left by the call of t and then the call of u, run one after the
\* other on the store d.
InOrder(d, t, u) ==
  UNION { import_block_alone(d1, call[u].block[1], call[u].executes) :
            d1 \in import_block_alone(d, call[t].block[1], call[t].executes) }

\* The calls of i1 and i2 have both returned, having run beside each other
\* from the store `base`, each with a block of its own that base did not hold.
TwoCallsReturned ==
  /\ \A t \in Importers : call[t].pc = "returned"
  /\ call["i1"].block # call["i2"].block
  /\ \A t \in Importers : call[t].block[1].id \notin Stored(base)

\* C16: two concurrent import_block calls on the shared backend leave the
\* store that the two calls leave when run one after the other in one of the
\* two orders, and the store is inside a settle only while the write lock
\* keeps every read and every other commit out.
C16_ConcurrentCallsSerializable ==
  /\ TwoCallsReturned => db \in InOrder(base, "i1", "i2") \cup InOrder(base, "i2", "i1")
  /\ db # committed => write_lock # None


\* The ImportAction of the thread t exists: it was created and is neither
\* committed nor dropped.
ActionAlive(t) ==
  call[t].pc \in {"head", "best_depth", "parent_depth", "execute", "commit", "open"}

\* The commit of the action of t has begun and has not finished.
Committing(t) == call[t].pc \in {"write", "settling"}

\* C17: at most one ImportAction exists on the shared backend at any time,
\* and the thread that created an action holds the import lock from the
\* creation until the commit of the action has finished or the action is
\* dropped.
C17_ImportLockHeldThroughCommit ==
  /\ Cardinality({t \in Importers : ActionAlive(t)}) <= 1
  /\ \A t \in Importers :
       (ActionAlive(t) \/ Committing(t)) => import_lock.holder = Some(t)


\* The thread t takes a step with its ImportAction that is not the commit:
\* it stages a mutation, or gets an error from import_block, or drops it.
ActionStepWithoutCommit(t) ==
  /\ call[t].pc = "open"
  /\ call'[t] # call[t]
  /\ call'[t].pc \in {"open", "returned"}

\* The thread t drops its ImportAction without commit.
ActionDropped(t) == call[t].pc = "open" /\ call'[t].pc = "returned"

\* C18: no import_raw, import_block, set_head, insert_auxiliary or
\* remove_auxiliary call on an ImportAction, and no drop of the action
\* without commit, changes the store; the drop leaves the import lock free
\* and not poisoned, so that the next begin_action takes it; and when no other
\* thread ran beside the action, the store after the drop is the store the
\* action was opened on.
C18_DropLeavesStoreAndUnlocks ==
  /\ [][\A t \in Importers :
          /\ ActionStepWithoutCommit(t) => db' = db
          /\ ActionDropped(t) =>
               /\ MutexAcquirable(import_lock')
               /\ ~import_lock'.poisoned]_vars
  /\ [](\A t \in Importers :
          (ReturnedInSequence(t) /\ call[t].result = "Dropped")
            => /\ db = base
               /\ MutexAcquirable(import_lock)
               /\ ~import_lock.poisoned)

\* A thread has dropped an action in which a block and a head were staged,
\* the store is as it was, and the other thread has begun an action since.
C18_Witness ==
  \E t \in Importers, u \in Importers :
    /\ t # u
    /\ call[t].pc = "returned"
    /\ call[t].result = "Dropped"
    /\ Len(call[t].pending.import_block) > 0
    /\ call[t].pending.set_head # None
    /\ call[u].pc = "open"
    /\ import_lock.holder = Some(u)
    /\ db = base


\* C19: every query of a reader thread on the RwLock-based shared backend is
\* answered from the store left by the commits that have finished, never
\* from a store inside a settle (blocks inserted, their parents' children
\* lists and the head not yet written).
C19_QueriesSeeCommittedStore == observed # "partial"

\* A query was answered from the committed store after a commit has changed
\* it, and a commit is inside settle, holding the write lock, with its blocks
\* inserted and nothing else written.
C19_Witness ==
  /\ observed = "committed"
  /\ \E t \in Importers :
       /\ call[t].pc = "settling"
       /\ write_lock = Some(t)
       /\ db # committed
       /\ committed # base


\* ------------------------------------------------------------------ NetworkSync

\* The number of fires of the Interval the model follows.
MaxTick == 2

\* SyncConfig
update_frequency == 1

peer_update_frequency == 1

request_timeout == 1

\* count: 256 of the BlockRequest the reference handler sends.
BlockRequestCount == 256

\* The peer the node is connected to.
Peer == "p"

\* SyncEvent
QueryStatus == [type |-> "QueryStatus", peer |-> None]

QueryPeerStatus(peer) == [type |-> "QueryPeerStatus", peer |-> Some(peer)]

QueryBlocks(peer) == [type |-> "QueryBlocks", peer |-> Some(peer)]

\* SimpleSyncMessage
Status(status) ==
  [type |-> "Status", status |-> status, start_depth |-> 0, count |-> 0,
   blocks |-> <<>>]

BlockRequest(start_depth, count) ==
  [type |-> "BlockRequest", status |-> 0, start_depth |-> start_depth,
   count |-> count, blocks |-> <<>>]

BlockResponse(blocks) ==
  [type |-> "BlockResponse", status |-> 0, start_depth |-> 0, count |-> 0,
   blocks |-> blocks]

\* The store a node has after it imported the blocks ids one by one with
\* BestDepthImporter, starting from the genesis.
RECURSIVE ChainStore(_)
ChainStore(ids) ==
  IF ids = <<>> THEN new_with_genesis(GenesisBlock, StateOf(GenesisBlock.id))
  ELSE CHOOSE d \in UNION { import_block_alone(store, Block(ids[Len(ids)]), TRUE) :
                            store \in {ChainStore(SubSeq(ids, 1, Len(ids) - 1))} } : TRUE

\* The store of the peer: the chain 1 <- 2 <- 3 <- 4 <- 11 <- 12 <- 13 <- 14.
PeerStore == ChainStore(<<2, 3, 4, 11, 12, 13, 14>>)

\* The stores the node may have when it connects to the peer: the genesis
\* alone, the first blocks of the chain of the peer, or a fork of it.
LocalStores ==
  {ChainStore(<<>>), ChainStore(<<2, 3, 4>>), ChainStore(<<2, 5, 6>>)}

\* NetworkSync::note_blocks
note_blocks(s, blocks) == [s EXCEPT !.pending_blocks = @ \o blocks]

\* NetworkSync::note_peer_status
note_peer_status(s, peer, status) ==
  LET entry == IF peer \in DOMAIN s.peers THEN s.peers[peer] ELSE DefaultPeerStatus
  IN [s EXCEPT !.peers =
        [p \in DOMAIN @ \cup {peer} |->
           IF p = peer THEN [entry EXCEPT !.head_status = Some(<<status, s.tick>>)]
           ELSE @[p]]]

\* A note_status that records the tick to come.
note_status_ahead(s, status) == [s EXCEPT !.head_status = <<status, s.tick + 1>>]

\* NetworkSync::note_status
note_status(s, status) == [s EXCEPT !.head_status = <<status, s.tick>>]

\* NetworkSync::note_connected
note_connected(s, peer) ==
  [s EXCEPT !.peers =
     [p \in DOMAIN @ \cup {peer} |-> IF p = peer THEN DefaultPeerStatus ELSE @[p]]]

\* An is_syncing that holds whatever the peers advertise.
is_syncing_always(s) == DOMAIN s.peers # {}

\* An is_syncing that holds as soon as a peer has advertised a status.
is_syncing_on_status(s) ==
  \E p \in DOMAIN s.peers : s.peers[p].head_status # None

\* NetworkSync::is_syncing
is_syncing(s) ==
  \E p \in DOMAIN s.peers :
    /\ s.peers[p].head_status # None
    /\ s.peers[p].head_status[1][1] > s.head_status[1]

\* A push_event that does not look for the event in the queue.
push_event_again(events, event) == Append(events, event)

\* NetworkSync::push_event
push_event(events, event) ==
  IF \E i \in 1..Len(events) : events[i] = event THEN events
  ELSE Append(events, event)

\* The new events put in front of the queue.
push_events_front(events, new_events) == new_events \o events

\* for event in new_events { self.push_event(event) }
RECURSIVE push_events(_, _)
push_events(events, new_events) ==
  IF new_events = <<>> THEN events
  ELSE push_events(push_event(events, Head(new_events)), Tail(new_events))

\* One pass of poll_next over the pending blocks, lines 140-153: each block
\* left is given to the importer; an imported block is taken off the list
\* and an Err leaves it there.  The importer panics on a block whose parent
\* is not stored (unwrap of depth_at), and the pass ends there.  The blocks
\* come from the canonical chain of a peer, so the executor accepts them.
RECURSIVE import_pass(_, _, _, _)
import_pass(store, pending, unimported, progress) ==
  UNION {
    IF blocks = <<>>
    THEN {[db |-> d, left |-> left, progress |-> progress, panicked |-> FALSE]}
    ELSE LET block == Head(blocks)
         IN IF block.parent_id = None
            THEN import_pass(d, Tail(blocks), Append(left, block), progress)
            ELSE IF ~contains(d, block.parent_id[1])
            THEN {[db |-> d, left |-> left \o blocks, progress |-> progress,
                   panicked |-> TRUE]}
            ELSE UNION
                   { IF out.result = "Ok"
                     THEN import_pass(out.db, Tail(blocks), left, TRUE)
                     ELSE import_pass(d, Tail(blocks), Append(left, block), progress) :
                     out \in settle(d, import_operation(
                                         block,
                                         execute_block(block,
                                                       state_at(d, block.parent_id[1])),
                                         depth_at(d, block.parent_id[1]) + 1,
                                         depth_at(d, d.head))) } :
    d \in {store}, blocks \in {pending}, left \in {unimported} }

\* The loop of poll_next over the passes, lines 137-158: until a pass imports
\* nothing.
RECURSIVE drain(_, _)
drain(d, blocks) ==
  UNION { IF r.panicked \/ ~r.progress THEN {r} ELSE drain(r.db, r.left) :
          r \in import_pass(d, blocks, <<>>, FALSE) }

\* A request that is never timed out.
request_kept(status, current_tick) == status

\* if let Some(last_tick) = status.pending_request { .. }, lines 188-192
request_cleared(status, current_tick) ==
  IF /\ status.pending_request # None
     /\ current_tick - status.pending_request[1] >= request_timeout
  THEN [status EXCEPT !.pending_request = None]
  ELSE status

\* The condition of lines 194-196.
status_wanted(status, current_tick) ==
  /\ status.pending_request = None
  /\ \/ status.head_status = None
     \/ current_tick - status.head_status[1][2] >= peer_update_frequency

\* poll_next from the timer on, lines 165-234: the NetworkSync it leaves and
\* what it returns, for every order in which the peers are iterated and
\* every peer that may be chosen.
poll_events(s0, fires) ==
  LET current_tick == s0.tick + fires
      s1 == [s0 EXCEPT !.tick = current_tick]
      status_events ==
        IF current_tick - s1.head_status[2] >= update_frequency
        THEN <<QueryStatus>> ELSE <<>>
      cleared == [p \in DOMAIN s1.peers |-> request_cleared(s1.peers[p], current_tick)]
      asked == {p \in DOMAIN cleared : status_wanted(cleared[p], current_tick)}
      s2 == [s1 EXCEPT !.peers =
               [p \in DOMAIN cleared |->
                  IF p \in asked
                  THEN [cleared[p] EXCEPT !.pending_request = Some(current_tick)]
                  ELSE cleared[p]]]
      need_initialize_new_request ==
        /\ is_syncing(s2)
        /\ s2.last_sync = None \/ current_tick - s2.last_sync[1] >= update_frequency
      chosen == IF need_initialize_new_request /\ DOMAIN s2.peers # {}
                THEN {Some(p) : p \in DOMAIN s2.peers} ELSE {None}
  IN { LET s3 == IF peer = None THEN s2
                 ELSE [s2 EXCEPT !.peers[peer[1]].pending_request = Some(current_tick)]
           s4 == IF need_initialize_new_request
                 THEN [s3 EXCEPT !.last_sync = Some(current_tick)] ELSE s3
           new_events ==
             status_events
               \o [i \in 1..Cardinality(asked) |-> QueryPeerStatus(order[i])]
               \o (IF peer = None THEN <<>> ELSE <<QueryBlocks(peer[1])>>)
           events == push_events(s4.pending_events, new_events)
       IN IF events = <<>>
          THEN [sync |-> s4, task |-> NewTask]
          ELSE [sync |-> [s4 EXCEPT !.pending_events = Tail(events)],
                task |-> [pc |-> "dispatch", event |-> Some(Head(events))]] :
       order \in IterationOrders(asked), peer \in chosen }

\* The canonical blocks of d from the depth start_depth on, count at most:
\* the loop of the BlockRequest handler.
RECURSIVE canon_blocks(_, _, _)
canon_blocks(d, start_depth, count) ==
  IF count = 0 \/ lookup_canon_depth(d, start_depth) = None THEN <<>>
  ELSE <<block_at(d, lookup_canon_depth(d, start_depth)[1])>>
         \o canon_blocks(d, start_depth + 1, count - 1)

\* NetworkSync::poll_next, lines 130-235: what it leaves and returns.  When
\* the importer panics the task ends with the blocks imported so far in the
\* store and the import lock poisoned.
poll_next(d, s, fires) ==
  UNION { IF r.panicked
          THEN {[db |-> r.db, sync |-> [s EXCEPT !.pending_blocks = <<>>],
                 task |-> [pc |-> "panicked", event |-> None],
                 timer |-> fires, panicked |-> TRUE]}
          ELSE {[db |-> r.db, sync |-> out.sync, task |-> out.task,
                 timer |-> 0, panicked |-> FALSE] :
                out \in poll_events([s EXCEPT !.pending_blocks = <<>>], fires)} :
          r \in drain(d, s.pending_blocks) }

\* The task is polled.  The Interval wakes it at every fire; the scheduler
\* may poll it at any other time as well.
Poll ==
  /\ emitted.pc = "poll"
  /\ \E out \in poll_next(db, sync, timer) :
       /\ db' = out.db
       /\ sync' = out.sync
       /\ emitted' = out.task
       /\ timer' = out.timer
       /\ import_lock' = [import_lock EXCEPT !.poisoned = @ \/ out.panicked]
  /\ UNCHANGED <<to_peer, to_local, importing_vars>>

\* The Interval of the NetworkSync fires.
TimerFires ==
  /\ sync.tick + timer < MaxTick
  /\ timer' = timer + 1
  /\ UNCHANGED <<db, sync, emitted, to_peer, to_local, import_lock, importing_vars>>

\* The caller of the stream turns the SyncEvent into wire messages:
\* QueryStatus is answered with the status of the node, QueryBlocks(peer)
\* becomes the BlockRequest of the reference handler, from the depth after
\* the head, and a QueryPeerStatus sends nothing, the peers broadcasting
\* their status on their ticks.
Dispatch ==
  /\ emitted.pc = "dispatch"
  /\ LET event == emitted.event[1]
     IN /\ sync' = IF event.type = "QueryStatus"
                   THEN note_status(sync, generate(db)) ELSE sync
        /\ to_peer' = IF event.type = "QueryBlocks"
                      THEN Append(to_peer,
                                  BlockRequest(generate(db) + 1, BlockRequestCount))
                      ELSE to_peer
  /\ emitted' = NewTask
  /\ UNCHANGED <<db, timer, to_local, import_lock, importing_vars>>

\* A wire message arrives at the node: a Status is noted as the status of
\* the peer and the blocks of a BlockResponse are noted for import.
OnMessage ==
  /\ emitted.pc # "panicked"
  /\ to_local # <<>>
  /\ LET message == Head(to_local)
     IN sync' = IF message.type = "Status"
                THEN note_peer_status(sync, Peer, message.status)
                ELSE note_blocks(sync, message.blocks)
  /\ to_local' = Tail(to_local)
  /\ UNCHANGED <<db, emitted, timer, to_peer, import_lock, importing_vars>>

\* SimpleSync::on_tick of the peer: its status is broadcast.  The model sends
\* no second Status while one is under way.
PeerOnTick ==
  /\ \A i \in 1..Len(to_local) : to_local[i].type # "Status"
  /\ to_local' = Append(to_local, Status(generate(peer_backend)))
  /\ UNCHANGED <<db, sync, emitted, timer, to_peer, import_lock, importing_vars>>

\* SimpleSync::on_message of the peer for a BlockRequest.
PeerOnMessage ==
  /\ to_peer # <<>>
  /\ LET message == Head(to_peer)
     IN to_local' = Append(to_local,
                           BlockResponse(canon_blocks(peer_backend, message.start_depth,
                                                      message.count)))
  /\ to_peer' = Tail(to_peer)
  /\ UNCHANGED <<db, sync, emitted, timer, import_lock, importing_vars>>

\* The node has its store and is connected to the peer.
InitSync ==
  /\ db \in LocalStores
  /\ pc = "idle"
  /\ operation = DefaultOperation
  /\ result = "Ok"
  /\ before = db
  /\ import_lock = [holder |-> None, poisoned |-> FALSE]
  /\ write_lock = None
  /\ call = [t \in Importers |-> IdleCall]
  /\ committed = db
  /\ base = db
  /\ observed = "nothing"
  /\ sync = note_connected(NetworkSync_new(generate(db)), Peer)
  /\ emitted = NewTask
  /\ timer = 0
  /\ to_peer = <<>>
  /\ to_local = <<>>
  /\ peer_backend = PeerStore
  /\ second = None
  /\ walk = NoWalk

NextSync ==
  \/ Poll
  \/ TimerFires
  \/ Dispatch
  \/ OnMessage
  \/ PeerOnTick
  \/ PeerOnMessage

\* The timer fires, the task is polled, its events are dispatched and the
\* messages are delivered and answered: none of them is put off forever.
\* The weak fairness of Poll is written in two parts, for a task with and
\* without blocks to import: with blocks the poll is enabled and changes
\* the state whatever the importer does.
FairSync ==
  /\ WF_vars(sync.pending_blocks = <<>> /\ Poll)
  /\ <>[](emitted.pc = "poll" /\ sync.pending_blocks # <<>>) => []<><<Poll>>_vars
  /\ WF_vars(TimerFires)
  /\ WF_vars(Dispatch)
  /\ WF_vars(OnMessage)
  /\ WF_vars(PeerOnTick)
  /\ WF_vars(PeerOnMessage)

SpecSync == InitSync /\ [][NextSync]_vars /\ FairSync

\* The head of the node is at least as deep as the head of the peer.
CaughtUp == generate(db) >= generate(peer_backend)

\* The node is connected to the peer and the peer is ahead of it.
PeerAhead == Peer \in DOMAIN sync.peers /\ generate(peer_backend) > generate(db)

\* The head of the node is a block of the canonical chain of the peer.
OnChainOfPeer ==
  contains(peer_backend, db.head) /\ is_canon(peer_backend, db.head)

\* On the canonical chain of the peer the node catches up.
CatchesUpOnChainOfPeer == (PeerAhead /\ OnChainOfPeer) ~> CaughtUp

\* C20: a node whose peer stays connected and ahead of it, with no message
\* lost and the timer, the polls and the deliveries scheduled fairly,
\* eventually has a head at least as deep as the head of the peer.
C20_SyncCatchesUp == PeerAhead ~> CaughtUp

\* ------------------------------------------------------------------ two commits and their merge

\* Longest import_block list of each of two Operations committed one after
\* the other.
MaxMerged == 1

\* The blocks the two Operations import.
MergeIds == {2, 3}

\* The Operations a caller commits one after the other.
MergeOperations ==
  [ import_block :
      SeqsUpTo({[block |-> Block(i), state |-> StateOf(i)] : i \in MergeIds},
               MaxMerged),
    set_head : {None} \cup {Some(i) : i \in MergeIds},
    insert_auxiliaries : {<<>>} \cup {<<a>> : a \in ActionAuxiliaries},
    remove_auxiliaries : {<<>>} \cup {<<k>> : k \in Keys} ]

\* The Operation an ImportAction holds when the calls that stage op1 are
\* followed by the calls that stage op2: the lists are pushed onto and
\* set_head is overwritten.
merge(op1, op2) ==
  [ import_block |-> op1.import_block \o op2.import_block,
    set_head |-> IF op2.set_head # None THEN op2.set_head ELSE op1.set_head,
    insert_auxiliaries |-> op1.insert_auxiliaries \o op2.insert_auxiliaries,
    remove_auxiliaries |-> op1.remove_auxiliaries \o op2.remove_auxiliaries ]

\* The first commit of the caller.
CommitFirst == pc = "idle" /\ \E op \in MergeOperations : Commit(op)

\* The second commit of the caller, on the store the first one left.
CommitSecond(op) ==
  /\ pc = "returned"
  /\ second = None
  /\ \E out \in settle(db, op) :
       /\ ChildrenBounded(out.db)
       /\ db' = out.db
       /\ second' = Some([operation |-> op, result |-> out.result, before |-> db])
  /\ UNCHANGED <<pc, operation, result, before, import_lock, write_lock, call,
                 committed, base, observed, network, walk>>

\* The caller drops the Result of its only commit.
ReturnFirst == second = None /\ Return

\* The caller drops the Results of its two commits.
ReturnBoth ==
  /\ pc = "returned"
  /\ second # None
  /\ pc' = "idle"
  /\ operation' = DefaultOperation
  /\ result' = "Ok"
  /\ before' = db
  /\ second' = None
  /\ UNCHANGED <<db, import_lock, write_lock, call, committed, base, observed,
                 network, walk>>

NextMerge ==
  \/ CommitFirst
  \/ pc = "returned" /\ \E op \in MergeOperations : CommitSecond(op)
  \/ ReturnFirst
  \/ ReturnBoth

SpecMerge == Init /\ [][NextMerge]_vars

\* ------------------------------------------------------------------ C21

\* Two commits have returned to the caller.
TwoCommitsReturned == pc = "returned" /\ second # None

\* Both commits succeeded.
BothOk == result = "Ok" /\ second[1].result = "Ok"

\* Every block of the list has its parent in d or earlier in the list.
ParentFirst(d, imports) ==
  \A i \in 1..Len(imports) :
    /\ imports[i].block.parent_id # None
    /\ imports[i].block.parent_id[1] \in
         Stored(d) \cup {imports[j].block.id : j \in 1..(i - 1)}

\* At most one of the two Operations sets the head.
HeadIndependent(op1, op2) == op1.set_head = None \/ op2.set_head = None

\* The merged Operation, committed on the store before the first commit,
\* succeeds exactly when both commits succeeded and then leaves the store
\* they left, children taken as sets.
MergedAgrees ==
  \A m \in settle(before, merge(operation, second[1].operation)) :
    /\ (m.result = "Ok") <=> BothOk
    /\ BothOk => ChildrenAsSets(m.db) = ChildrenAsSets(db)

\* C21: when the second of two Operations does not set the head after the
\* first has, and the two import lists one after the other name every block
\* after its parent, the two commits succeed exactly when the commit of the
\* merged Operation succeeds, and leave the same store, children as sets.
C21_SequentialEqualsMerged ==
  ( /\ TwoCommitsReturned
    /\ HeadIndependent(operation, second[1].operation)
    /\ ParentFirst(before, operation.import_block \o second[1].operation.import_block) )
  => MergedAgrees


\* The identifiers the import list names.
Imported(imports) == {imports[i].block.id : i \in 1..Len(imports)}

\* The blocks that set_head and the inserted auxiliaries of op name.
Named(op) ==
  {op.set_head[i] : i \in 1..Len(op.set_head)} \cup
  UNION {Range(op.insert_auxiliaries[i].associated) :
           i \in 1..Len(op.insert_auxiliaries)}

\* The keys of the auxiliaries op inserts.
InsertedKeys(op) ==
  {op.insert_auxiliaries[i].key : i \in 1..Len(op.insert_auxiliaries)}

\* The two Operations can be merged: no block is imported twice, the first
\* names no block that is new with the second, and the second removes no
\* auxiliary that the first inserts.
Mergeable(d, op1, op2) ==
  /\ Imported(op1.import_block) \cap Imported(op2.import_block) = {}
  /\ Len(op1.import_block \o op2.import_block) =
       Cardinality(Imported(op1.import_block \o op2.import_block))
  /\ Named(op1) \cap (Imported(op2.import_block) \ Stored(d)) = {}
  /\ InsertedKeys(op1) \cap Range(op2.remove_auxiliaries) = {}

\* Two Operations that can be merged and import no block that is stored
\* agree with their merge.
MergeableNewBlocksAgree ==
  ( /\ TwoCommitsReturned
    /\ HeadIndependent(operation, second[1].operation)
    /\ ParentFirst(before, operation.import_block \o second[1].operation.import_block)
    /\ Mergeable(before, operation, second[1].operation)
    /\ Imported(operation.import_block \o second[1].operation.import_block)
         \cap Stored(before) = {} )
  => MergedAgrees

\* ------------------------------------------------------------------ C22

\* The first commit did nothing but insert the auxiliary a and the second
\* nothing but remove the key of a, and both succeeded.
InsertedThenRemoved(a) ==
  /\ TwoCommitsReturned
  /\ BothOk
  /\ operation = [DefaultOperation EXCEPT !.insert_auxiliaries = <<a>>]
  /\ second[1].operation = [DefaultOperation EXCEPT !.remove_auxiliaries = <<a.key>>]

C23_ImportBlockNeverPanics ==
  \A t \in Importers : call[t].pc # "panicked"

\* ------------------------------------------------------------------ C24

\* What a call of ImportAction::import_block with the block b leaves in the
\* action of the thread t: the error and the pending Operation as it was, or
\* Ok and the pending Operation with one ImportOperation more, the block with
\* the state of its parent in the committed store after execute_block.
ImportBlockOutcome(t, b) ==
  LET block == Block(b)
      pending == call[t].pending
      res == call'[t].result
  IN IF block.parent_id = None
     THEN res = "IsGenesis" /\ call'[t].pending = pending
     ELSE IF ~contains(committed, block.parent_id[1])
     THEN res = "Backend" /\ call'[t].pending = pending
     ELSE \/ res = "Executor" /\ call'[t].pending = pending
          \/ /\ res = "Ok"
             /\ call'[t].pending =
                  [pending EXCEPT !.import_block =
                     Append(@, [ block |-> block,
                                 state |-> execute_block(block,
                                   state_at(committed, block.parent_id[1])) ])]

CommonAncestor(d, a, b) ==
  LET both == Chain(d, a, Cardinality(Stored(d))) \cap
              Chain(d, b, Cardinality(Stored(d)))
  IN CHOOSE c \in both : \A x \in both : depth_at(d, x) <= depth_at(d, c)

\* The identifiers met on the walk from id up to its ancestor stop, id first
\* and stop left out: a branch in walk order.
RECURSIVE WalkOrder(_, _, _)
WalkOrder(d, id, stop) ==
  IF id = stop THEN <<>>
  ELSE <<id>> \o WalkOrder(d, block_at(d, id).parent_id[1], stop)

\* C25: for stored a and b, tree_route(a, b) returns the from-branch
\* reversed, the common block and the to-branch reversed, the branches being
\* in walk order, and as pivot the length of the from-branch.
C25_RouteFromReversedBranches ==
  pc = "idle" =>
    \A a, b \in Stored(db) :
      LET r == tree_route(db, a, b)
          common == CommonAncestor(db, a, b)
          from_branch == WalkOrder(db, a, common)
          to_branch == WalkOrder(db, b, common)
      IN /\ r.fail = "no"
         /\ r.route = Reverse(from_branch) \o <<common>> \o Reverse(to_branch)
         /\ r.pivot = Len(from_branch)

\* C25, amended: tree_route(a, b) returns the from-branch as it was walked,
\* from a up, then the common block, then the to-branch reversed, and as
\* pivot the length of the from-branch.
C25_RouteFromBranches ==
  pc = "idle" =>
    \A a, b \in Stored(db) :
      LET r == tree_route(db, a, b)
          common == CommonAncestor(db, a, b)
          from_branch == WalkOrder(db, a, common)
          to_branch == WalkOrder(db, b, common)
      IN /\ r.fail = "no"
         /\ r.route = from_branch \o <<common>> \o Reverse(to_branch)
         /\ r.pivot = Len(from_branch)

\* A store with the forks 1 <- 2 <- 3 and 1 <- 10: the route from 3 to 10
\* has a from-branch of two blocks.
C25_Witness ==
  /\ pc = "idle"
  /\ {3, 10} \subseteq Stored(db)
  /\ tree_route(db, 3, 10).route = <<3, 2, 1, 10>>
  /\ tree_route(db, 3, 10).pivot = 2

\* ------------------------------------------------------------------ C26

\* How often x is in the list q.
Count(q, x) == Cardinality({i \in 1..Len(q) : q[i] = x})

\* The identifiers the import list names more than once.
Duplicated(imports) ==
  {id \in Imported(imports) :
     Cardinality({i \in 1..Len(imports) : imports[i].block.id = id}) > 1}

\* The block id of the store d has its parent stored, one level above it and
\* listing it once, and lists as its children the stored blocks whose parent
\* it is, each once.
WellPlaced(d, id) ==
  /\ contains(d, id)
  /\ block_at(d, id).parent_id # None
  /\ contains(d, block_at(d, id).parent_id[1])
  /\ depth_at(d, id) = depth_at(d, block_at(d, id).parent_id[1]) + 1
  /\ Count(children_at(d, block_at(d, id).parent_id[1]), id) = 1
  /\ \A c \in Stored(d) :
       Count(children_at(d, id), c) =
         (IF block_at(d, c).parent_id = Some(id) THEN 1 ELSE 0)

\* The commit that returned was successful and had an identifier more than
\* once in its import list.
CommittedDuplicate ==
  /\ pc = "returned"
  /\ result = "Ok"
  /\ Duplicated(operation.import_block) # {}

\* C26: after a successful commit of an Operation that names an identifier
\* more than once in its import list, the block is stored once: its parent
\* is stored one level above it and lists it once, its own children list is
\* exact, and every block of the same Operation is one level below its
\* parent.
C26_DuplicateAdmittedOnce ==
  CommittedDuplicate =>
    /\ \A id \in Duplicated(operation.import_block) : WellPlaced(db, id)
    /\ \A id \in Imported(operation.import_block) :
         depth_at(db, id) = depth_at(db, block_at(db, id).parent_id[1]) + 1

\* The same for an Operation whose blocks were not in the store before.
DuplicateOfNewBlockAdmittedOnce ==
  (CommittedDuplicate /\ Imported(operation.import_block) \cap Stored(before) = {})
  => /\ \A id \in Duplicated(operation.import_block) : WellPlaced(db, id)
     /\ \A id \in Imported(operation.import_block) :
          depth_at(db, id) = depth_at(db, block_at(db, id).parent_id[1]) + 1

\* ------------------------------------------------------------------ the importer of sync/depth.rs

\* BestDepthImporter::import_block of sync/depth.rs up to the commit: the
\* block is executed on the state of the current best block, handed to the
\* action with that state, and made the head when it is deeper.
depth_import_operation(d, block, new_parent_depth) ==
  import_operation(block,
                   execute_block(block, state_at(d, d.head)),
                   new_parent_depth + 1,
                   depth_at(d, d.head))

\* One call of that import_block by the only thread that imports: the lock,
\* the reads, the execution and the commit.  The unwrap of the depth of a
\* parent that is not stored panics and poisons the lock, and so does every
\* lock() after it.
DepthImportBlock(b) ==
  LET block == Block(b)
  IN /\ pc = "idle"
     /\ Submittable(db, block)
     /\ before' = db
     /\ IF import_lock.poisoned
           \/ (block.parent_id # None /\ ~contains(db, block.parent_id[1]))
        THEN /\ pc' = "panicked"
             /\ result' = "panic"
             /\ operation' = DefaultOperation
             /\ db' = db
             /\ import_lock' = [import_lock EXCEPT !.poisoned = TRUE]
        ELSE /\ pc' = "returned"
             /\ UNCHANGED import_lock
             /\ \/ /\ result' = "Executor"
                   /\ operation' = DefaultOperation
                   /\ db' = db
                \/ LET op == depth_import_operation(db, block,
                               IF block.parent_id = None THEN 0
                               ELSE depth_at(db, block.parent_id[1]))
                   IN /\ operation' = op
                      /\ \E out \in settle(db, op) :
                           /\ db' = out.db
                           /\ result' = out.result
     /\ UNCHANGED <<write_lock, call, committed, base, observed, network, second, walk>>

\* The blocks handed to that importer: those of ImportIds and the block 5 of
\* the fork under 2.
DepthIds == ImportIds \cup {5}

NextDepth ==
  \/ \E b \in DepthIds : DepthImportBlock(b)
  \/ Return

SpecDepth == Init /\ [][NextDepth]_vars

\* ------------------------------------------------------------------ C27

\* C27: the state the longest-depth importer stores for a block is the state
\* of the parent of the block after execute_block, also for a block whose
\* parent is not the head.
C27_StateExecutedOnParent ==
  (pc = "returned" /\ result = "Ok") =>
    \A i \in 1..Len(operation.import_block) :
      LET block == operation.import_block[i].block
      IN state_at(db, block.id) =
           execute_block(block, state_at(before, block.parent_id[1]))

\* ------------------------------------------------------------------ SharedDirectBackend

\* What the prechecks of commit_operation! make of the Operation op on the
\* database d.
prechecked(d, op) ==
  LET v == verify_imports(d, op.import_block, EmptyMap, EmptyMap)
  IN [ result |->
         IF v.err # "Ok" THEN v.err
         ELSE IF op.set_head # None /\ ~head_exists(d, v.importing, op.set_head[1])
              THEN "InvalidOperation"
         ELSE IF ~auxiliaries_valid(d, v.importing, op.insert_auxiliaries)
              THEN "InvalidOperation"
         ELSE "Ok",
       importing |-> v.importing,
       parent_ides |-> v.parent_ides ]

\* SharedDirectBackend::commit_action after Operation::from(action), first
\* half: commit_operation! prechecks the Operation and inserts the admitted
\* blocks through the shared database.  No guard is held.
DirectCommitBegin(t) ==
  LET v == prechecked(db, call[t].pending)
  IN /\ Step(t, "write", "settling",
             [call[t] EXCEPT !.settled =
                Some([result |-> v.result, parent_ides |-> v.parent_ides])])
     /\ db' = IF v.result = "Ok"
              THEN insert_blocks(db, v.importing, DOMAIN v.importing)
              ELSE db
     /\ UNCHANGED <<import_lock, write_lock, committed, base, observed, single>>

\* Second half: the children, the canonical chain, the head and the
\* auxiliaries are written to the database as it is by then, and
\* commit_action returns.
DirectCommitDone(t) ==
  LET s == call[t].settled[1]
  IN /\ call[t].pc = "settling"
     /\ \E order \in IterationOrders(DOMAIN s.parent_ides) :
          LET out == IF s.result = "Ok"
                     THEN finish(db, call[t].pending, s.parent_ides, order)
                     ELSE [result |-> s.result, db |-> db]
          IN /\ Step(t, "settling", "returned",
                     [call[t] EXCEPT !.result = out.result,
                                     !.settled = None,
                                     !.head_after = Some(out.db.head)])
             /\ db' = out.db
             /\ committed' = out.db
     /\ UNCHANGED <<import_lock, write_lock, base, observed, single>>

\* A thread has inserted the blocks of its Operation and not yet written the
\* rest.
MidCommit ==
  \E t \in Importers :
    call[t].pc = "settling" /\ call[t].settled[1].result = "Ok"

\* A query of a reader thread through a clone of the SharedDirectBackend:
\* served from the shared database as it is.
DirectQuery ==
  /\ observed' = IF MidCommit THEN "partial" ELSE "committed"
  /\ UNCHANGED <<db, import_lock, write_lock, call, committed, base, single>>

NextDirect ==
  \/ \E t \in Importers :
       \/ \E b \in ImportIds : ImportActionNew(t, b)
       \/ ReadHead(t)
       \/ ReadBestDepth(t)
       \/ ReadParentDepth(t)
       \/ ExecuteBlock(t)
       \/ CommitAction(t)
       \/ DirectCommitBegin(t)
       \/ DirectCommitDone(t)
  \/ ImportersReturn
  \/ DirectQuery

SpecDirect == Init /\ [][NextDirect]_vars

\* ------------------------------------------------------------------ C28

\* C28: no query through a clone of a SharedDirectBackend is served while
\* only some of the database mutations of an Operation have been applied.
C28_DirectCommitAtomicForReaders ==
  [][DirectQuery => observed' # "partial"]_vars

\* ------------------------------------------------------------------ C29

\* The step is a poll of the NetworkSync that returns to its caller.
PollReturns == Poll /\ emitted'.pc # "panicked"

\* The tick of the NetworkSync in the poll that is the step, after the fires
\* of the timer.
PollTick == sync.tick + timer

\* The events that are pending or handed to the caller after the step.
EventsAfter ==
  (IF emitted'.event = None THEN <<>> ELSE <<emitted'.event[1]>>)
    \o sync'.pending_events

\* The step has put the event on the queue of pending events.
Pushed(event) == Count(EventsAfter, event) > Count(sync.pending_events, event)

\* The status of the node is as old as update_frequency ticks.
StatusDue == PollTick - sync.head_status[2] >= update_frequency

\* The caller answers a QueryStatus with note_status.
StatusNoted ==
  /\ emitted.pc = "dispatch"
  /\ emitted.event[1] = QueryStatus
  /\ Dispatch

\* C29: a poll puts QueryStatus on the pending events exactly when the tick
\* is at least update_frequency after the tick of the last note_status, that
\* tick being what note_status records.
C29_QueryStatusWhenDue ==
  /\ [][PollReturns => (Pushed(QueryStatus) <=> StatusDue)]_vars
  /\ [][StatusNoted => sync'.head_status[2] = sync.tick]_vars

\* C29, amended: a poll puts QueryStatus on the pending events exactly when
\* the status is due and no QueryStatus is pending already.
C29_QueryStatusWhenDueAndNotPending ==
  /\ [][PollReturns =>
         (Pushed(QueryStatus) <=>
            (StatusDue /\ QueryStatus \notin Range(sync.pending_events)))]_vars
  /\ [][StatusNoted => sync'.head_status[2] = sync.tick]_vars

\* A poll at a later tick has returned QueryStatus, the status of the node
\* being due.
C29_Witness ==
  /\ emitted.pc = "dispatch"
  /\ emitted.event = Some(QueryStatus)
  /\ sync.tick - sync.head_status[2] >= update_frequency


\* ---------------------------------------------------------------------
\* The request to a peer and its timeout
\* ---------------------------------------------------------------------

\* The request the peer has pending when the poll begins.
PeerRequest == sync.peers[Peer].pending_request

\* The request pending is as old as request_timeout at the tick of the poll.
RequestTimedOut ==
  /\ PeerRequest # None
  /\ PollTick - PeerRequest[1] >= request_timeout

\* The status of the peer was never seen or is as old as
\* peer_update_frequency at the tick of the poll.
PeerStatusStale ==
  \/ sync.peers[Peer].head_status = None
  \/ PollTick - sync.peers[Peer].head_status[1][2] >= peer_update_frequency

\* No request is left pending once the timed out one is cleared, and the
\* status is stale.
PeerEligible ==
  /\ PeerRequest = None \/ RequestTimedOut
  /\ PeerStatusStale

\* C30 as stated: on every poll a request of the peer as old as
\* request_timeout is cleared (what is pending afterwards is a request of
\* this tick or none); then, with no request pending and the status never
\* seen or peer_update_frequency old, QueryPeerStatus(peer) is pushed and
\* pending_request is the current tick; while a request is pending and not
\* timed out no QueryPeerStatus is pushed.
C30_PeerQueryOnTimeout ==
  [][PollReturns =>
       /\ RequestTimedOut =>
            sync'.peers[Peer].pending_request \in {None, Some(PollTick)}
       /\ PeerEligible =>
            /\ Pushed(QueryPeerStatus(Peer))
            /\ sync'.peers[Peer].pending_request = Some(PollTick)
       /\ (PeerRequest # None /\ ~RequestTimedOut) =>
            ~Pushed(QueryPeerStatus(Peer))]_vars

\* C30 amended: the same, but the QueryPeerStatus(peer) is pushed only when
\* none is pending already; pending_request is set to the current tick
\* in both cases, and a peer that is not eligible gets no QueryPeerStatus.
C30_PeerQueryOnTimeoutUnlessPending ==
  [][PollReturns =>
       /\ RequestTimedOut =>
            sync'.peers[Peer].pending_request \in {None, Some(PollTick)}
       /\ PeerEligible =>
            /\ Pushed(QueryPeerStatus(Peer))
                 <=> QueryPeerStatus(Peer) \notin Range(sync.pending_events)
            /\ sync'.peers[Peer].pending_request = Some(PollTick)
       /\ ~PeerEligible => ~Pushed(QueryPeerStatus(Peer))
       /\ (PeerRequest # None /\ ~RequestTimedOut) =>
            /\ ~Pushed(QueryPeerStatus(Peer))
            /\ sync'.peers[Peer].pending_request \in {PeerRequest, Some(PollTick)}]_vars

\* A poll after the first tick has returned the QueryPeerStatus of the peer:
\* the request of an earlier tick timed out and the peer was asked again.
C30_Witness ==
  /\ emitted.pc = "dispatch"
  /\ emitted.event = Some(QueryPeerStatus(Peer))
  /\ sync.tick >= request_timeout
  /\ sync.peers[Peer].pending_request = Some(sync.tick)


\* ---------------------------------------------------------------------
\* The request for blocks
\* ---------------------------------------------------------------------

\* Some peer advertises a status strictly greater than the local one.
Advertised ==
  \E p \in DOMAIN sync.peers :
    /\ sync.peers[p].head_status # None
    /\ sync.peers[p].head_status[1][1] > sync.head_status[1]

\* No sync was started before, or update_frequency ticks have passed since
\* last_sync at the tick of the poll.
SyncDue ==
  \/ sync.last_sync = None
  \/ PollTick - sync.last_sync[1] >= update_frequency

\* The poll pushes a QueryBlocks of a connected peer, and of no other.
PushedBlocks ==
  /\ \E p \in DOMAIN sync.peers : Pushed(QueryBlocks(p))
  /\ \A i \in 1..Len(EventsAfter) :
       (EventsAfter[i].type = "QueryBlocks" /\ EventsAfter[i] \notin Range(sync.pending_events))
         => EventsAfter[i].peer[1] \in DOMAIN sync.peers

\* No QueryBlocks is pushed by the poll.
NoBlocksPushed ==
  \A i \in 1..Len(EventsAfter) :
    EventsAfter[i].type = "QueryBlocks" =>
      Count(EventsAfter, EventsAfter[i]) <= Count(sync.pending_events, EventsAfter[i])

\* C31 as stated: a poll pushes QueryBlocks(peer), peer connected, exactly
\* when some peer advertises more than the local status and no sync was
\* started or update_frequency ticks have passed since last_sync; last_sync
\* is then the current tick.  When no peer advertises more, no QueryBlocks
\* is pushed and last_sync is unchanged.
C31_QueryBlocksWhenSyncing ==
  [][PollReturns =>
       /\ (Advertised /\ SyncDue) =>
            /\ PushedBlocks
            /\ sync'.last_sync = Some(PollTick)
       /\ ~(Advertised /\ SyncDue) => NoBlocksPushed
       /\ ~Advertised => sync'.last_sync = sync.last_sync]_vars

\* C31 amended: the same, but the QueryBlocks(peer) is pushed only when
\* the peer chosen has none pending already; last_sync is the current tick
\* in both cases, and it is unchanged when the request is not due.
C31_QueryBlocksWhenSyncingUnlessPending ==
  [][PollReturns =>
       /\ (Advertised /\ SyncDue) =>
            /\ PushedBlocks \/
                 /\ NoBlocksPushed
                 /\ \E p \in DOMAIN sync.peers :
                      /\ QueryBlocks(p) \in Range(sync.pending_events)
                      /\ sync'.peers[p].pending_request = Some(PollTick)
            /\ (\A p \in DOMAIN sync.peers :
                  QueryBlocks(p) \notin Range(sync.pending_events)) => PushedBlocks
            /\ sync'.last_sync = Some(PollTick)
       /\ ~(Advertised /\ SyncDue) =>
            /\ NoBlocksPushed
            /\ sync'.last_sync = sync.last_sync]_vars

\* A poll has returned the QueryBlocks of the peer, and a sync is started.
C31_Witness ==
  /\ emitted.pc = "dispatch"
  /\ emitted.event = Some(QueryBlocks(Peer))
  /\ sync.last_sync = Some(sync.tick)
  /\ sync.peers[Peer].head_status # None
  /\ sync.peers[Peer].head_status[1][1] > sync.head_status[1]


\* ---------------------------------------------------------------------
\* The queue of events
\* ---------------------------------------------------------------------

\* No event is in the queue twice.
NoEventTwice(events) ==
  \A i, j \in 1..Len(events) : events[i] = events[j] => i = j

\* What was pending before the step is returned or kept first, in its
\* order: the step takes events from the front and adds them at the back.
KeptInOrder ==
  LET old == sync.pending_events
  IN /\ Len(EventsAfter) >= Len(old)
     /\ SubSeq(EventsAfter, 1, Len(old)) = old

\* C32: pending_events never holds two equal events; a poll returns at most
\* one event, the one at the front of the queue, those pending before it
\* having been pushed earlier and those it pushes coming after them; no
\* other step touches the queue.
C32_EventsDeduplicatedFifo ==
  /\ []NoEventTwice(sync.pending_events)
  /\ [][PollReturns =>
          /\ KeptInOrder
          /\ Len(sync'.pending_events) >= Len(EventsAfter) - 1
          /\ NoEventTwice(EventsAfter)
          /\ emitted'.event = None => EventsAfter = <<>>]_vars
  /\ [][~Poll => sync'.pending_events = sync.pending_events]_vars

\* A poll has returned the first of three events and left the other two
\* in the queue.
C32_Witness ==
  /\ emitted.pc = "dispatch"
  /\ emitted.event # None
  /\ Len(sync.pending_events) >= 2


\* ---------------------------------------------------------------------
\* The drain of pending_blocks
\* ---------------------------------------------------------------------

\* The blocks of a batch noted at once, at most.
MaxBatch == 2

\* The blocks that are noted: the genesis, the chain 2 <- 3 and the fork 5.
DrainIds == {1, 2, 3, 5}

\* The batches that are noted.
Batches ==
  UNION {[1..n -> {Block(i) : i \in DrainIds}] : n \in 1..MaxBatch}

\* No stored block lists a child twice.
ChildrenListedOnce(d) ==
  \A id \in DOMAIN d.blocks_and_states :
    \A i, j \in 1..Len(d.blocks_and_states[id].children) :
      d.blocks_and_states[id].children[i] = d.blocks_and_states[id].children[j]
        => i = j

\* note_blocks is called with a batch, as the handler of a BlockResponse
\* does; one batch is noted for a poll, and none once a re-imported block
\* is listed twice by its parent.
NoteBlocks ==
  /\ emitted.pc # "panicked"
  /\ sync.pending_blocks = <<>>
  /\ ChildrenListedOnce(db)
  /\ \E blocks \in Batches : sync' = note_blocks(sync, blocks)
  /\ UNCHANGED <<db, emitted, timer, to_peer, to_local, import_lock, importing_vars>>

NextDrain ==
  \/ NoteBlocks
  \/ Poll
  \/ TimerFires
  \/ Dispatch

\* The node alone with its NetworkSync: batches are noted and the task is
\* polled.
SpecDrain == InitSync /\ [][NextDrain]_vars

\* The block at i of the batch is the child of a later one, which can be
\* imported: neither is stored and the parent of the later one is.
ChildBeforeParent(d, blocks, i, j) ==
  /\ i < j
  /\ blocks[i].parent_id = Some(blocks[j].id)
  /\ blocks[j].parent_id # None
  /\ contains(d, blocks[j].parent_id[1])
  /\ ~contains(d, blocks[i].id)
  /\ ~contains(d, blocks[j].id)

\* How many times the block was imported between two stores, as far as its
\* parent tells: every import appends the block to the children of its
\* parent.
ImportedTimes(d1, d2, block) ==
  IF block.parent_id = None \/ ~contains(d2, block.parent_id[1]) THEN 0
  ELSE LET parent == block.parent_id[1]
           listed == IF contains(d1, parent)
                     THEN Count(children_at(d1, parent), block.id) ELSE 0
       IN Count(children_at(d2, parent), block.id) - listed

\* C33: a poll with blocks pending imports a child that arrived before its
\* parent together with the parent; it imports no block of the batch more
\* than once; a block whose parent is stored
\* neither before nor after the poll is not imported; pending_blocks is
\* empty after the poll.
C33_DrainRetriesUntilNoProgress ==
  [][(Poll /\ sync.pending_blocks # <<>>) =>
       LET blocks == sync.pending_blocks
       IN /\ \A i, j \in 1..Len(blocks) :
               ChildBeforeParent(db, blocks, i, j) =>
                 /\ contains(db', blocks[i].id)
                 /\ contains(db', blocks[j].id)
          /\ \A i \in 1..Len(blocks) : ImportedTimes(db, db', blocks[i]) <= 1
          /\ \A i \in 1..Len(blocks) :
               (/\ blocks[i].parent_id # None
                /\ ~contains(db', blocks[i].parent_id[1])
                /\ ~contains(db, blocks[i].id)) => ~contains(db', blocks[i].id)
          /\ sync'.pending_blocks = <<>>]_vars

\* What holds of the drain: the queue is empty after the poll, a block is
\* stored after it only with its parent, and a poll that returns has
\* imported every block of the batch whose parent it leaves stored.
DrainOfPollThatReturns ==
  [][(Poll /\ sync.pending_blocks # <<>>) =>
       LET blocks == sync.pending_blocks
       IN /\ sync'.pending_blocks = <<>>
          /\ \A i \in 1..Len(blocks) :
               (blocks[i].parent_id # None /\ contains(db', blocks[i].id))
                  => contains(db', blocks[i].parent_id[1])
          /\ emitted'.pc # "panicked" =>
               \A i \in 1..Len(blocks) :
                 (blocks[i].parent_id # None /\ contains(db', blocks[i].parent_id[1]))
                    => contains(db', blocks[i].id)]_vars


\* ---------------------------------------------------------------------
\* The waker of the NetworkSync task
\* ---------------------------------------------------------------------

\* The task whose last poll returned Pending: it is polled again when the
\* waker that poll_next stored (line 131) or the Interval wakes it.
ParkedTask == [pc |-> "parked", event |-> None]

\* NetworkSync::wake: the waker stored by the last poll is taken and woken.
wake(task) == IF task = ParkedTask THEN NewTask ELSE task

\* NetworkSync::note_disconnected
note_disconnected(s, peer) ==
  [s EXCEPT !.peers = [p \in DOMAIN @ \ {peer} |-> @[p]]]

\* The statuses that are noted: depths of a head.
NotedStatuses == {0, 3}

\* The task is polled: with an event it goes on to handle it, on Pending
\* it parks.
WakingPoll ==
  /\ emitted.pc = "poll"
  /\ \E out \in poll_next(db, sync, timer) :
       /\ db' = out.db
       /\ sync' = out.sync
       /\ emitted' = IF out.task = NewTask THEN ParkedTask ELSE out.task
       /\ timer' = out.timer
       /\ import_lock' = [import_lock EXCEPT !.poisoned = @ \/ out.panicked]
  /\ UNCHANGED <<to_peer, to_local, importing_vars>>

\* The Interval fires and wakes the task that polled it last.
TimerWakes ==
  /\ emitted.pc # "panicked"
  /\ sync.tick + timer < MaxTick
  /\ timer' = timer + 1
  /\ emitted' = wake(emitted)
  /\ UNCHANGED <<db, sync, to_peer, to_local, import_lock, importing_vars>>

\* note_blocks, lines 74-77: the blocks are appended and the task is woken.
NoteBlocksWakes ==
  /\ emitted.pc # "panicked"
  /\ sync.pending_blocks = <<>>
  /\ ChildrenListedOnce(db)
  /\ \E i \in DrainIds : sync' = note_blocks(sync, <<Block(i)>>)
  /\ emitted' = wake(emitted)
  /\ UNCHANGED <<db, timer, to_peer, to_local, import_lock, importing_vars>>

\* note_peer_status, lines 79-83.
NotePeerStatus ==
  /\ emitted.pc # "panicked"
  /\ \E status \in NotedStatuses : sync' = note_peer_status(sync, Peer, status)
  /\ UNCHANGED <<db, emitted, timer, to_peer, to_local, import_lock, importing_vars>>

\* note_status, lines 85-87.
NoteStatus ==
  /\ emitted.pc # "panicked"
  /\ \E status \in NotedStatuses : sync' = note_status(sync, status)
  /\ UNCHANGED <<db, emitted, timer, to_peer, to_local, import_lock, importing_vars>>

\* note_connected, lines 89-91.
NoteConnected ==
  /\ emitted.pc # "panicked"
  /\ sync' = note_connected(sync, Peer)
  /\ UNCHANGED <<db, emitted, timer, to_peer, to_local, import_lock, importing_vars>>

\* note_disconnected, lines 93-95.
NoteDisconnected ==
  /\ emitted.pc # "panicked"
  /\ sync' = note_disconnected(sync, Peer)
  /\ UNCHANGED <<db, emitted, timer, to_peer, to_local, import_lock, importing_vars>>

\* The event the poll returned is taken by the caller of the stream, which
\* polls again.
TakeEvent ==
  /\ emitted.pc = "dispatch"
  /\ emitted' = NewTask
  /\ UNCHANGED <<db, sync, timer, to_peer, to_local, import_lock, importing_vars>>

NextWake ==
  \/ WakingPoll
  \/ TimerWakes
  \/ NoteBlocksWakes
  \/ NotePeerStatus
  \/ NoteStatus
  \/ NoteConnected
  \/ NoteDisconnected
  \/ TakeEvent

\* The NetworkSync with its task and the callers of its note_ methods.
SpecWake == InitSync /\ [][NextWake]_vars

\* One of the five note_ methods is called.
Noted ==
  \/ NoteBlocksWakes
  \/ NotePeerStatus
  \/ NoteStatus
  \/ NoteConnected
  \/ NoteDisconnected

\* C34: every call of note_blocks, note_peer_status, note_status,
\* note_connected and note_disconnected leaves the task woken: a task that
\* was parked is to be polled again, without a fire of the timer.
C34_NoteWakesTheTask ==
  [][Noted => emitted' # ParkedTask]_vars

\* What holds: note_blocks leaves the task woken, and the task is parked
\* only with no event and no block pending.
NoteBlocksWakesTheTask ==
  /\ [][NoteBlocksWakes => emitted' = NewTask \/ emitted'.pc = "dispatch"]_vars
  /\ [](emitted = ParkedTask => sync.pending_blocks = <<>> /\ sync.pending_events = <<>>)


\* ---------------------------------------------------------------------
\* The reference handler SimpleSync
\* ---------------------------------------------------------------------

\* The bits the model keeps of the u64 of start_depth and count.
DepthBits == 9

\* u64::MAX at that width.
U64Max == 2 ^ DepthBits - 1

\* The BlockRequest that arrive: from the depths of the store and from the
\* last depth there is, for no block, a few, the 256 of the handler and as
\* many as can be asked.
RequestDepths == {0, 1, 2, U64Max}

RequestCounts == {0, 1, 2, BlockRequestCount, U64Max}

HandlerMessages ==
  {BlockRequest(start_depth, count) :
     start_depth \in RequestDepths, count \in RequestCounts}
    \cup {BlockResponse(blocks) : blocks \in Batches}

\* The BlockRequest arm of on_message, lines 136-157: the blocks of the
\* reply.  start_depth + count is a u64 addition: when it overflows, a build
\* with overflow checks panics and one without wraps to an end below
\* start_depth, which leaves the range start_depth..end empty.
block_request_reply(d, start_depth, count) ==
  IF start_depth + count > U64Max
  THEN {[panicked |-> TRUE, blocks |-> <<>>],
        [panicked |-> FALSE, blocks |-> <<>>]}
  ELSE {[panicked |-> FALSE, blocks |-> canon_blocks(d, start_depth, count)]}

\* The BlockResponse arm of on_message, lines 158-171: the blocks are given
\* to the importer one after the other until one returns Err.  The importer
\* panics on a block whose parent is not stored.
RECURSIVE import_in_order(_, _)
import_in_order(store, list) ==
  UNION {
    IF blocks = <<>> THEN {[db |-> d, panicked |-> FALSE]}
    ELSE LET block == Head(blocks)
         IN IF block.parent_id = None THEN {[db |-> d, panicked |-> FALSE]}
            ELSE IF ~contains(d, block.parent_id[1])
            THEN {[db |-> d, panicked |-> TRUE]}
            ELSE UNION
                   { IF out.result = "Ok"
                     THEN import_in_order(out.db, Tail(blocks))
                     ELSE {[db |-> d, panicked |-> FALSE]} :
                     out \in settle(d, import_operation(
                                         block,
                                         execute_block(block,
                                                       state_at(d, block.parent_id[1])),
                                         depth_at(d, block.parent_id[1]) + 1,
                                         depth_at(d, d.head))) } :
    d \in {store}, blocks \in {list} }

\* A message arrives at the node.
Deliver ==
  /\ emitted.pc # "panicked"
  /\ to_local = <<>>
  /\ ChildrenListedOnce(db)
  /\ \E message \in HandlerMessages : to_local' = <<message>>
  /\ UNCHANGED <<db, sync, emitted, timer, to_peer, import_lock, importing_vars>>

\* on_message with a BlockRequest.
OnBlockRequest ==
  /\ emitted.pc # "panicked"
  /\ to_local # <<>>
  /\ Head(to_local).type = "BlockRequest"
  /\ to_peer = <<>>
  /\ \E reply \in block_request_reply(db, Head(to_local).start_depth,
                                      Head(to_local).count) :
       /\ emitted' = IF reply.panicked THEN [pc |-> "panicked", event |-> None]
                     ELSE emitted
       /\ to_peer' = IF reply.panicked THEN to_peer
                     ELSE <<BlockResponse(reply.blocks)>>
  /\ to_local' = Tail(to_local)
  /\ UNCHANGED <<db, sync, timer, import_lock, importing_vars>>

\* on_message with a BlockResponse.
OnBlockResponse ==
  /\ emitted.pc # "panicked"
  /\ to_local # <<>>
  /\ Head(to_local).type = "BlockResponse"
  /\ \E out \in import_in_order(db, Head(to_local).blocks) :
       /\ db' = out.db
       /\ emitted' = IF out.panicked THEN [pc |-> "panicked", event |-> None]
                     ELSE emitted
       /\ import_lock' = [import_lock EXCEPT !.poisoned = @ \/ out.panicked]
  /\ to_local' = Tail(to_local)
  /\ UNCHANGED <<sync, timer, to_peer, importing_vars>>

\* The reply leaves the node.
ReplySent ==
  /\ to_peer # <<>>
  /\ to_peer' = Tail(to_peer)
  /\ UNCHANGED <<db, sync, emitted, timer, to_local, import_lock, importing_vars>>

NextHandler ==
  \/ Deliver
  \/ OnBlockRequest
  \/ OnBlockResponse
  \/ ReplySent

\* A node that answers the messages of its peers with SimpleSync.
SpecHandler == InitSync /\ [][NextHandler]_vars

\* The canonical blocks of depths start_depth, start_depth + 1, .., at most
\* count, up to the first depth without a canonical block.
RECURSIVE CanonicalFrom(_, _, _)
CanonicalFrom(d, start_depth, count) ==
  IF count = 0 \/ ~\E id \in DOMAIN d.blocks_and_states :
                     is_canon(d, id) /\ depth_at(d, id) = start_depth
  THEN <<>>
  ELSE <<block_at(d, CHOOSE id \in DOMAIN d.blocks_and_states :
                       is_canon(d, id) /\ depth_at(d, id) = start_depth)>>
         \o CanonicalFrom(d, start_depth + 1, count - 1)

\* The blocks of the list before the first one the importer cannot take: a
\* block without parent, or with a parent that is not stored by then.
RECURSIVE FedBeforeError(_, _)
FedBeforeError(stored, blocks) ==
  IF blocks = <<>> THEN {}
  ELSE IF Head(blocks).parent_id = None \/ Head(blocks).parent_id[1] \notin stored
  THEN {}
  ELSE {Head(blocks).id} \cup FedBeforeError(stored \cup {Head(blocks).id}, Tail(blocks))

\* The blocks are fed in list order up to the first error, and none after it.
FedInOrder ==
  OnBlockResponse =>
    DOMAIN db'.blocks_and_states =
      DOMAIN db.blocks_and_states
        \cup FedBeforeError(DOMAIN db.blocks_and_states, Head(to_local).blocks)

\* C35: on a BlockRequest the handler replies with one BlockResponse that
\* holds the canonical blocks from start_depth on in depth order, count at
\* most, up to the first depth without one; on a BlockResponse it imports
\* the blocks in list order up to the first error and none after it.
C35_ReferenceHandler ==
  /\ [][OnBlockRequest =>
          to_peer' = <<BlockResponse(CanonicalFrom(db, Head(to_local).start_depth,
                                                   Head(to_local).count))>>]_vars
  /\ [][FedInOrder]_vars

\* What holds: the reply is as stated when start_depth + count is a u64,
\* and the blocks of a BlockResponse are fed as stated.
HandlerWithoutOverflow ==
  /\ [][(OnBlockRequest /\ Head(to_local).start_depth + Head(to_local).count <= U64Max) =>
          to_peer' = <<BlockResponse(CanonicalFrom(db, Head(to_local).start_depth,
                                                   Head(to_local).count))>>]_vars
  /\ [][FedInOrder]_vars


\* ---------------------------------------------------------------------
\* The genesis
\* ---------------------------------------------------------------------

\* The genesis of the store is the block it was made with, stored at depth
\* 0 on the canonical chain and with its own state.
GenesisKept(d) ==
  /\ d.genesis = GenesisBlock.id
  /\ contains(d, d.genesis)
  /\ block_at(d, d.genesis) = GenesisBlock
  /\ state_at(d, d.genesis) = StateOf(GenesisBlock.id)
  /\ depth_at(d, d.genesis) = 0
  /\ is_canon(d, d.genesis)
  /\ lookup_canon_depth(d, 0) = Some(d.genesis)

\* C36: in every store reached by commits the genesis identifier is the
\* one of construction and the genesis block is stored with depth 0, is
\* canonical and is the canonical block of depth 0.
C36_GenesisKept == GenesisKept(db)

\* A commit that moved the head from one branch to another has returned
\* Ok: the reorg retracted the old branch down to the genesis.
C36_Witness ==
  /\ pc = "returned"
  /\ result = "Ok"
  /\ operation.set_head # None
  /\ before.head # before.genesis
  /\ db.head # before.head
  /\ ~is_canon(db, before.head)
  /\ GenesisKept(db)


\* ---------------------------------------------------------------------
\* The ticks recorded
\* ---------------------------------------------------------------------

\* Every tick the NetworkSync has recorded is at most its current tick.
TicksRecorded(s) ==
  /\ s.head_status[2] <= s.tick
  /\ \A p \in DOMAIN s.peers :
       /\ s.peers[p].head_status # None => s.peers[p].head_status[1][2] <= s.tick
       /\ s.peers[p].pending_request # None => s.peers[p].pending_request[1] <= s.tick
  /\ s.last_sync # None => s.last_sync[1] <= s.tick

\* C37: in every state the tick of head_status, of the head_status of each
\* peer, of each pending_request and of last_sync is at most the current
\* tick, and no step lowers the tick: the subtractions of poll_next, all of
\* a recorded tick from the current one, do not underflow.
C37_TicksNeverAhead ==
  /\ []TicksRecorded(sync)
  /\ [][sync'.tick >= sync.tick]_vars

\* After the first tick all four kinds of ticks are recorded.
C37_Witness ==
  /\ sync.tick >= 1
  /\ sync.head_status[2] >= 1
  /\ sync.peers[Peer].head_status # None
  /\ sync.peers[Peer].pending_request # None
  /\ sync.last_sync # None


\* ---------------------------------------------------------------------
\* The peer that is asked for blocks
\* ---------------------------------------------------------------------

\* The peers that connect to the node.
Peers == {Peer, "q"}

\* note_connected for any of the peers.
ConnectPeer ==
  /\ emitted.pc # "panicked"
  /\ \E peer \in Peers : sync' = note_connected(sync, peer)
  /\ UNCHANGED <<db, emitted, timer, to_peer, to_local, import_lock, importing_vars>>

\* note_peer_status for any of the peers.
PeerAdvertises ==
  /\ emitted.pc # "panicked"
  /\ \E peer \in Peers, status \in NotedStatuses :
       sync' = note_peer_status(sync, peer, status)
  /\ UNCHANGED <<db, emitted, timer, to_peer, to_local, import_lock, importing_vars>>

NextPeers ==
  \/ Poll
  \/ TimerFires
  \/ TakeEvent
  \/ ConnectPeer
  \/ PeerAdvertises

\* The NetworkSync of a node with two peers.
SpecPeers == InitSync /\ [][NextPeers]_vars

\* The peer is connected and the status it advertised last is strictly
\* greater than the local one.
Ahead(p) ==
  /\ p \in DOMAIN sync.peers
  /\ sync.peers[p].head_status # None
  /\ sync.peers[p].head_status[1][1] > sync.head_status[1]

\* C38 as stated: a poll pushes QueryBlocks(p) only for a peer p whose last
\* advertised status is strictly greater than the local head status.
C38_QueryBlocksNamesPeerAhead ==
  [][PollReturns => \A p \in Peers : Pushed(QueryBlocks(p)) => Ahead(p)]_vars

\* C38 amended: a poll pushes QueryBlocks(p) only for a connected peer p
\* and only while some connected peer, p or another, is ahead.
C38_QueryBlocksNamesConnectedPeer ==
  [][PollReturns =>
       \A p \in Peers :
         Pushed(QueryBlocks(p)) =>
           /\ p \in DOMAIN sync.peers
           /\ \E q \in Peers : Ahead(q)]_vars

\* A poll has returned QueryBlocks for a peer that is not ahead, the other
\* peer being ahead.
C38_Witness ==
  /\ emitted.pc = "dispatch"
  /\ emitted.event[1].type = "QueryBlocks"
  /\ ~Ahead(emitted.event[1].peer[1])
  /\ \E q \in Peers : Ahead(q)


\* ---------------------------------------------------------------------
\* The walk of the BlockRequest handler beside an importer
\* ---------------------------------------------------------------------

\* The depths a BlockRequest starts from.
WalkDepths == {0, 1, 2}

\* The blocks the importer thread imports: those of the two branches under
\* 2 and the block 11 on top of 4.
WalkIds == {3, 4, 5, 6, 7, 11}

\* on_message with a BlockRequest, lines 140-142: `let _ =
\* self.backend.lock_import();` takes the import lock and drops the guard in
\* the same statement, so the walk begins with no lock held.
WalkBegin ==
  /\ walk.pc # "walking"
  /\ \E start_depth \in WalkDepths :
       walk' = [pc |-> "walking", d |-> start_depth,
                last |-> start_depth + BlockRequestCount, ret |-> <<>>,
                seen |-> {db}]
  /\ UNCHANGED <<db, pc, operation, result, before, import_lock, write_lock,
                 call, committed, base, observed, network, second>>

\* One turn of the loop, lines 143-152: lookup_canon_depth and block_at,
\* each under a read guard of its own; with no block at the depth the loop
\* ends and the reply is sent.
WalkStep ==
  /\ walk.pc = "walking"
  /\ walk' = IF walk.d < walk.last /\ lookup_canon_depth(db, walk.d) # None
             THEN [walk EXCEPT !.d = @ + 1,
                               !.ret = Append(@, block_at(db, lookup_canon_depth(db, walk.d)[1]))]
             ELSE [walk EXCEPT !.pc = "replied"]
  /\ UNCHANGED <<db, pc, operation, result, before, import_lock, write_lock,
                 call, committed, base, observed, network, second>>

\* Another thread imports a block with BestDepthImporter; its commit is one
\* write under the write guard of the RwLockBackend.
ImporterImports ==
  /\ \E i \in WalkIds :
       /\ ~contains(db, i)
       /\ db' \in import_block_alone(db, Block(i), TRUE)
  /\ walk' = IF walk.pc = "walking" THEN [walk EXCEPT !.seen = @ \cup {db'}]
             ELSE walk
  /\ UNCHANGED <<pc, operation, result, before, import_lock, write_lock,
                 call, committed, base, observed, network, second>>

NextWalk ==
  \/ WalkBegin
  \/ WalkStep
  \/ ImporterImports

\* The handler thread and the importer thread on one RwLockBackend.
SpecWalk == InitSync /\ [][NextWalk]_vars

\* Each block of the list is the parent of the next.
ParentLinked(blocks) ==
  \A i \in 2..Len(blocks) : blocks[i].parent_id = Some(blocks[i - 1].id)

\* The blocks of the list are all canonical in the store s.
CanonicalIn(s, blocks) ==
  \A i \in 1..Len(blocks) : contains(s, blocks[i].id) /\ is_canon(s, blocks[i].id)

\* C39: the blocks of the reply form one parent-linked chain that was
\* canonical in one of the stores committed while the handler walked.
C39_ResponseIsOneCanonicalChain ==
  walk.pc = "replied" =>
    /\ ParentLinked(walk.ret)
    /\ \E s \in walk.seen : CanonicalIn(s, walk.ret)

\* What holds: a walk beside which nothing was committed replies with one
\* canonical chain, and every block of any reply was canonical at its depth
\* in one of the stores the walk has seen.
ResponseOfQuietWalk ==
  walk.pc = "replied" =>
    /\ Cardinality(walk.seen) = 1 =>
         ParentLinked(walk.ret) /\ \E s \in walk.seen : CanonicalIn(s, walk.ret)
    /\ \A i \in 1..Len(walk.ret) :
         \E s \in walk.seen : CanonicalIn(s, <<walk.ret[i]>>)


\* ---------------------------------------------------------------------
\* The locks: MutexImporter, the import lock, the RwLock of the store
\* ---------------------------------------------------------------------

\* Where a thread stands while it holds the guard of the MutexImporter: from
\* the lock() of SharedBlockImporter::import_block to the return of the
\* import_block of the importer inside.
InsideImporter ==
  {"locked", "head", "best_depth", "parent_depth", "execute", "commit",
   "write", "settling"}

\* The Mutex of the MutexImporter is free.
ImporterAcquirable == \A u \in Importers : call[u].pc \notin InsideImporter

\* The Mutex of the MutexImporter is poisoned: a thread has panicked inside
\* it.  Every panic inside poisons the import lock as well, or comes from it.
ImporterPoisoned == import_lock.poisoned

\* A thread calls MutexImporter::import_block with a block.
CallImportBlock(t) ==
  /\ call[t].pc = "idle"
  /\ \E b \in ImportIds :
       /\ Submittable(db, Block(b))
       /\ Step(t, "idle", "calling", [call[t] EXCEPT !.block = Some(Block(b))])
  /\ UNCHANGED <<db, import_lock, write_lock, committed, base, observed, single>>

\* self.importer.lock().expect("Lock is poisoned"), import/mod.rs:91.
LockImporter(t) ==
  /\ call[t].pc = "calling"
  /\ IF ImporterPoisoned
     THEN Step(t, "calling", "panicked", call[t])
     ELSE /\ ImporterAcquirable
          /\ Step(t, "calling", "locked", call[t])
  /\ UNCHANGED <<db, import_lock, write_lock, committed, base, observed, single>>

\* BestDepthImporter::import_block, lines 203-208: ImportAction::new with
\* lock_import().
LockImport(t) ==
  /\ call[t].pc = "locked"
  /\ IF import_lock.poisoned
     THEN /\ Step(t, "locked", "panicked", call[t])
          /\ UNCHANGED import_lock
     ELSE /\ MutexAcquirable(import_lock)
          /\ import_lock' = [import_lock EXCEPT !.holder = Some(t)]
          /\ Step(t, "locked", "head", call[t])
  /\ UNCHANGED <<db, write_lock, committed, base, observed, single>>

\* The caller of a call that has returned takes its Result.
TakeResult(t) ==
  /\ Step(t, "returned", "idle", IdleCall)
  /\ UNCHANGED <<db, import_lock, write_lock, committed, base, observed, single>>

\* A reader thread calls a query of the shared backend.
ReaderCalls ==
  /\ observed # "waiting"
  /\ observed' = "waiting"
  /\ UNCHANGED <<db, import_lock, write_lock, call, committed, base, single>>

\* self.backend.read(): the query is served once no thread writes.
ReaderServed ==
  /\ observed = "waiting"
  /\ RwLockReadable(write_lock)
  /\ observed' = IF db = committed THEN "committed" ELSE "partial"
  /\ UNCHANGED <<db, import_lock, write_lock, call, committed, base, single>>

NextLocks ==
  \/ \E t \in Importers :
       \/ CallImportBlock(t)
       \/ LockImporter(t)
       \/ LockImport(t)
       \/ ReadHead(t)
       \/ ReadBestDepth(t)
       \/ ReadParentDepth(t)
       \/ ExecuteBlock(t)
       \/ CommitAction(t)
       \/ CommitWrite(t)
       \/ CommitDone(t)
       \/ TakeResult(t)
  \/ ReaderCalls
  \/ ReaderServed

\* The next step of the thread t inside its import_block call, the write
\* of the commit apart.
ThreadStep(t) ==
  \/ LockImporter(t)
  \/ LockImport(t)
  \/ ReadHead(t)
  \/ ReadBestDepth(t)
  \/ ReadParentDepth(t)
  \/ ExecuteBlock(t)
  \/ CommitAction(t)
  \/ CommitDone(t)

\* Fair scheduling: a thread whose next step is possible again and again
\* takes it, so a thread that waits for a lock gets it; the same for the
\* reader and the read lock.  For the write of the commit the strong
\* fairness is written out, RwLock::write being possible when no thread
\* holds the lock.
FairLocks ==
  /\ \A t \in Importers :
       /\ SF_vars(ThreadStep(t))
       /\ []<>(call[t].pc = "write" /\ RwLockWritable(write_lock))
            => []<><<CommitWrite(t)>>_vars
  /\ SF_vars(ReaderServed)

\* The threads that import through MutexImporter and the reader thread,
\* fairly scheduled.
SpecLocks == Init /\ [][NextLocks]_vars /\ FairLocks

\* C40: every import_block call that is made returns, and every query that
\* is made is served.
C40_EveryCallReturns ==
  /\ \A t \in Importers : (call[t].pc = "calling") ~> (call[t].pc = "returned")
  /\ (observed = "waiting") ~> (observed # "waiting")

\* What holds: no thread waits for ever.  Every import_block call returns
\* or panics, and every query is served.
EveryCallEnds ==
  /\ \A t \in Importers :
       (call[t].pc = "calling") ~> (call[t].pc \in {"returned", "panicked"})
  /\ (observed = "waiting") ~> (observed # "waiting")

====
